---- MODULE Spec2Model ----
(***************************************************************************)
(* The robot API server: the in-memory RobotStorage (storage.go) and the   *)
(* request handlers of RobotHandler (handlers.go), run by concurrent       *)
(* request goroutines.                                                     *)
(*                                                                         *)
(* RobotStorage.robots maps an id to a *Robot; the handlers work on the    *)
(* pointer GetRobot returns, so every field access made after GetRobot has *)
(* returned is an access to shared memory made without the store's mutex.  *)
(* Each such access, and each acquisition and each critical section of the *)
(* mutex, is one step of the model.  Action.Timestamp is not modelled.     *)
(***************************************************************************)
EXTENDS Integers, Sequences, FiniteSets, TLC

VARIABLES
    robots,     \* RobotStorage.robots : id -> pointer
    heap,       \* the Robot objects the pointers refer to
    items,      \* keys of RobotStorage.items (every stored value is true)
    mutex,      \* RobotStorage.mutex : [writer, readers]
    pc,         \* per request goroutine: position in its handler
    req,        \* per request goroutine: the request being served
    local,      \* per request goroutine: the handler's local variables
    resp,       \* per request goroutine: the response written by c.JSON
    pre,        \* per request goroutine: the store when its request was admitted
    admitted    \* number of requests admitted so far

vars == <<robots, heap, items, mutex, pc, req, local, resp, pre, admitted>>

\* Bound: the number of requests the server admits in one run.
MaxOps == 2

\* Bound: the number of requests of a run that serves one request at a time.
MaxSeqOps == 4

\* The goroutines serving requests concurrently.
Procs == {"g1", "g2"}

Nil == "nil"
NoWriter == "none"

RobotIds == {"robot1", "robot2"}
UnknownRobot == "robot9"
SeedItems == {"item1", "item2", "item3"}
UnknownItem == "item9"
\* Directions as it would be if the compass names were accepted as well
DirectionsWithCompass == {"up", "down", "left", "right", "north"}
Directions == {"up", "down", "left", "right"}

---------------------------------------------------------------------------
\* Go values

\* A Go slice of strings: the nil slice and the empty non-nil slice differ.
EmptySlice == [nil |-> FALSE, elems |-> <<>>]
NilSlice == [nil |-> TRUE, elems |-> <<>>]

\* append(s, x)
GoAppend(s, x) == [nil |-> FALSE, elems |-> Append(s.elems, x)]

\* Go's integer division truncates toward zero.
GoDiv(a, b) == IF a >= 0 THEN a \div b ELSE -((-a) \div b)

Action(type, details) == [Type |-> type, Details |-> details]

---------------------------------------------------------------------------
\* RobotStorage.Initialize

PtrOf(id) == "&" \o id

\* SeedActions as they would be if robot1's log ended with its second move
SeedActionsAttackBeforeMove(id) ==
    IF id = "robot1"
    THEN << Action("create", "Robot was created"),
            Action("move", "Moved north"),
            Action("pickup", "Picked up item1"),
            Action("putdown", "Put down item1"),
            Action("update", "Updated energy to 100"),
            Action("attack", "Attacked robot2"),
            Action("move", "Moved east") >>
    ELSE << Action("create", "Robot was created"),
            Action("move", "Moved south"),
            Action("damaged", "Damaged by robot1") >>

SeedActions(id) ==
    IF id = "robot1"
    THEN << Action("create", "Robot was created"),
            Action("move", "Moved north"),
            Action("pickup", "Picked up item1"),
            Action("putdown", "Put down item1"),
            Action("update", "Updated energy to 100"),
            Action("move", "Moved east"),
            Action("attack", "Attacked robot2") >>
    ELSE << Action("create", "Robot was created"),
            Action("move", "Moved south"),
            Action("damaged", "Damaged by robot1") >>

SeedRobot(id) ==
    [ ID        |-> id,
      Position  |-> IF id = "robot1" THEN [X |-> 0, Y |-> 0] ELSE [X |-> 10, Y |-> 10],
      Direction |-> IF id = "robot1" THEN "north" ELSE "south",
      Energy    |-> 100,
      Inventory |-> EmptySlice,
      Actions   |-> SeedActions(id) ]

Initialize ==
    /\ robots = [id \in RobotIds |-> PtrOf(id)]
    /\ heap = [ptr \in {PtrOf(id) : id \in RobotIds} |->
                 SeedRobot(CHOOSE id \in RobotIds : PtrOf(id) = ptr)]
    /\ items = SeedItems

---------------------------------------------------------------------------
\* sync.RWMutex

Unlocked == [writer |-> NoWriter, readers |-> {}]

CanRLock == mutex.writer = NoWriter
CanLock == mutex.writer = NoWriter /\ mutex.readers = {}

RLock(p) == [mutex EXCEPT !.readers = @ \cup {p}]
\* RUnlock as it would be with the deferred RUnlock missing
RUnlockMissing(p) == mutex
RUnlock(p) == [mutex EXCEPT !.readers = @ \ {p}]
Lock(p) == [mutex EXCEPT !.writer = p]
Unlock(p) == [mutex EXCEPT !.writer = NoWriter]

---------------------------------------------------------------------------
\* RobotStorage: the bodies of the store's methods, run holding the mutex

\* GetRobot as it would be if the lookup ignored its key
GetRobotAnyKey(id) == IF id \in DOMAIN robots THEN robots["robot1"] ELSE Nil

\* GetRobot: the pointer stored under id, or Nil with the error "robot not found"
GetRobot(id) == IF id \in DOMAIN robots THEN robots[id] ELSE Nil

\* SaveRobot: s.robots[robot.ID] = robot
SaveRobot(ptr) ==
    [id \in (DOMAIN robots) \cup {heap[ptr].ID} |->
        IF id = heap[ptr].ID THEN ptr ELSE robots[id]]

\* AddAction as it would be if it put the newest entry first
AddActionNewestFirst(robotID, actionType, details) ==
    IF robotID \in DOMAIN robots
    THEN [heap EXCEPT ![robots[robotID]].Actions = <<Action(actionType, details)>> \o @]
    ELSE heap

\* AddAction: append to the stored robot's Actions; an unknown id changes nothing
AddAction(robotID, actionType, details) ==
    IF robotID \in DOMAIN robots
    THEN [heap EXCEPT ![robots[robotID]].Actions = Append(@, Action(actionType, details))]
    ELSE heap

\* ItemExists as it would be if it looked the item up among the seeded items
ItemExistsSeeded(itemID) == itemID \in SeedItems
ItemExists(itemID) == itemID \in items
AddItem(itemID) == items \cup {itemID}
\* RemoveItem as it would be if it marked the item instead of deleting it
RemoveItemKeepsKey(itemID) == items
RemoveItem(itemID) == items \ {itemID}

---------------------------------------------------------------------------
\* Request goroutines

NoReq == [op |-> "none"]
NoResp == [status |-> 0]
\* What GetStatus has read of the robot, and the variables of GetActions.
NoView == [X |-> 0, Y |-> 0, Energy |-> 0, Inventory |-> NilSlice]
NoPaging == [page |-> 0, size |-> 0, totalElements |-> 0, totalPages |-> 0,
             endIndex |-> 0, i |-> 0]

NoLocal == [robot |-> Nil, target |-> Nil, reg |-> 0, inv |-> EmptySlice,
            found |-> FALSE, reduction |-> 0, damage |-> 0,
            view |-> NoView, paging |-> NoPaging, out |-> NilSlice]

Snapshot == [heap |-> heap, items |-> items]

Init ==
    /\ Initialize
    /\ mutex = Unlocked
    /\ pc = [p \in Procs |-> "idle"]
    /\ req = [p \in Procs |-> NoReq]
    /\ local = [p \in Procs |-> NoLocal]
    /\ resp = [p \in Procs |-> NoResp]
    /\ pre = [p \in Procs |-> Snapshot]
    /\ admitted = 0

\* The router hands a request to a handler; limit bounds the requests of a run,
\* snapshot is what is remembered of the store at the handler's entry.
AdmitRecording(p, r, first, limit, snapshot) ==
    /\ pc[p] \in {"idle", "done"}
    /\ admitted < limit
    /\ admitted' = admitted + 1
    /\ req' = [req EXCEPT ![p] = r]
    /\ pc' = [pc EXCEPT ![p] = first]
    /\ local' = [local EXCEPT ![p] = NoLocal]
    /\ resp' = [resp EXCEPT ![p] = NoResp]
    /\ pre' = [pre EXCEPT ![p] = snapshot]
    /\ UNCHANGED <<robots, heap, items, mutex>>

AdmitWithin(p, r, first, limit) == AdmitRecording(p, r, first, limit, Snapshot)

Admit(p, r, first) == AdmitWithin(p, r, first, MaxOps)

\* c.JSON(status, body); return
Respond(p, status, body) ==
    /\ resp' = [resp EXCEPT ![p] = [status |-> status, body |-> body]]
    /\ pc' = [pc EXCEPT ![p] = "done"]
    /\ local' = [local EXCEPT ![p] = NoLocal]

Goto(p, label) == pc' = [pc EXCEPT ![p] = label]

\* s.mutex.RLock() at the head of GetRobot and ItemExists
AcquireRead(p, from, to) ==
    /\ pc[p] = from
    /\ CanRLock
    /\ mutex' = RLock(p)
    /\ Goto(p, to)
    /\ UNCHANGED <<robots, heap, items, req, local, resp, pre, admitted>>

\* s.mutex.Lock() at the head of SaveRobot, AddAction, AddItem and RemoveItem
AcquireWrite(p, from, to) ==
    /\ pc[p] = from
    /\ CanLock
    /\ mutex' = Lock(p)
    /\ Goto(p, to)
    /\ UNCHANGED <<robots, heap, items, req, local, resp, pre, admitted>>

\* The body of SaveRobot and its deferred Unlock
SaveStep(p, from, ptr, to) ==
    /\ pc[p] = from
    /\ robots' = SaveRobot(ptr)
    /\ mutex' = Unlock(p)
    /\ Goto(p, to)
    /\ UNCHANGED <<heap, items, req, local, resp, pre, admitted>>


\* AddActionStep as it would be if the entry were appended to the log the
\* handler found when its request arrived
AddActionStepOnEntryLog(p, from, robotID, actionType, details, to) ==
    /\ pc[p] = from
    /\ heap' = [heap EXCEPT ![robots[robotID]].Actions =
                    Append(pre[p].heap[robots[robotID]].Actions,
                           Action(actionType, details))]
    /\ mutex' = Unlock(p)
    /\ Goto(p, to)
    /\ UNCHANGED <<robots, items, req, local, resp, pre, admitted>>

\* The body of AddAction and its deferred Unlock
AddActionStep(p, from, robotID, actionType, details, to) ==
    /\ pc[p] = from
    /\ heap' = AddAction(robotID, actionType, details)
    /\ mutex' = Unlock(p)
    /\ Goto(p, to)
    /\ UNCHANGED <<robots, items, req, local, resp, pre, admitted>>

---------------------------------------------------------------------------
\* RobotHandler.MoveRobot

MoveAxis(direction) == IF direction \in {"up", "down"} THEN "Y" ELSE "X"
\* MoveStep as it would be if 'down' and 'left' incremented too
MoveStepAlwaysForward(direction) == 1
MoveStep(direction) == IF direction \in {"up", "right"} THEN 1 ELSE -1

\* robot.Position.Y++ and its three siblings: the value stored
MoveValue(direction, loaded) == loaded + MoveStep(direction)

MoveRequest(id, direction, malformed) ==
    [op |-> "Move", id |-> id, direction |-> direction, malformed |-> malformed]

StartMove(p, id, direction, malformed) ==
    Admit(p, MoveRequest(id, direction, malformed), "mv_get")

\* MoveGetRobot as it would be if the body were bound and the direction tested
\* before the robot is looked up
MoveGetRobotBindsFirst(p) ==
    /\ pc[p] = "mv_get_cs"
    /\ mutex' = RUnlock(p)
    /\ LET robot == GetRobot(req[p].id) IN
         IF req[p].malformed
         THEN Respond(p, 400, [error |-> "Invalid request format"])
         ELSE IF req[p].direction \notin Directions
         THEN Respond(p, 400, [error |-> "Invalid direction"])
         ELSE IF robot = Nil
         THEN Respond(p, 404, [error |-> "Robot not found"])
         ELSE /\ local' = [local EXCEPT ![p].robot = robot]
              /\ Goto(p, "mv_load")
              /\ UNCHANGED resp
    /\ UNCHANGED <<robots, heap, items, req, pre, admitted>>

MoveGetRobot(p) ==
    /\ pc[p] = "mv_get_cs"
    /\ mutex' = RUnlock(p)
    /\ LET robot == GetRobot(req[p].id) IN
         IF robot = Nil
         THEN Respond(p, 404, [error |-> "Robot not found"])
         ELSE IF req[p].malformed
         THEN Respond(p, 400, [error |-> "Invalid request format"])
         ELSE IF req[p].direction \notin Directions
         THEN Respond(p, 400, [error |-> "Invalid direction"])
         ELSE /\ local' = [local EXCEPT ![p].robot = robot]
              /\ Goto(p, "mv_load")
              /\ UNCHANGED resp
    /\ UNCHANGED <<robots, heap, items, req, pre, admitted>>

\* the read of robot.Position.X or .Y
MoveLoad(p) ==
    /\ pc[p] = "mv_load"
    /\ local' = [local EXCEPT ![p].reg =
                    IF MoveAxis(req[p].direction) = "Y"
                    THEN heap[local[p].robot].Position.Y
                    ELSE heap[local[p].robot].Position.X]
    /\ Goto(p, "mv_store")
    /\ UNCHANGED <<robots, heap, items, mutex, req, resp, pre, admitted>>

\* MoveStore as it would be if a Move also turned the robot to face its direction
MoveStoreTurning(p) ==
    /\ pc[p] = "mv_store"
    /\ heap' = IF MoveAxis(req[p].direction) = "Y"
               THEN [heap EXCEPT ![local[p].robot].Position.Y =
                        MoveValue(req[p].direction, local[p].reg),
                                 ![local[p].robot].Direction = req[p].direction]
               ELSE [heap EXCEPT ![local[p].robot].Position.X =
                        MoveValue(req[p].direction, local[p].reg),
                                 ![local[p].robot].Direction = req[p].direction]
    /\ Goto(p, "mv_add")
    /\ UNCHANGED <<robots, items, mutex, req, local, resp, pre, admitted>>

\* the write of robot.Position.X or .Y
MoveStore(p) ==
    /\ pc[p] = "mv_store"
    /\ heap' = IF MoveAxis(req[p].direction) = "Y"
               THEN [heap EXCEPT ![local[p].robot].Position.Y =
                        MoveValue(req[p].direction, local[p].reg)]
               ELSE [heap EXCEPT ![local[p].robot].Position.X =
                        MoveValue(req[p].direction, local[p].reg)]
    /\ Goto(p, "mv_add")
    /\ UNCHANGED <<robots, items, mutex, req, local, resp, pre, admitted>>

MoveAddAction(p) ==
    AddActionStep(p, "mv_add_cs", req[p].id, "move", "Moved " \o req[p].direction, "mv_save")

MoveSaveRobot(p) == SaveStep(p, "mv_save_cs", local[p].robot, "mv_resp")

MoveRespond(p) ==
    /\ pc[p] = "mv_resp"
    /\ Respond(p, 200, [message |-> "Robot moved successfully",
                        position |-> heap[local[p].robot].Position])
    /\ UNCHANGED <<robots, heap, items, mutex, req, pre, admitted>>

MoveSteps(p) ==
    \/ AcquireRead(p, "mv_get", "mv_get_cs")
    \/ MoveGetRobot(p)
    \/ MoveLoad(p)
    \/ MoveStore(p)
    \/ AcquireWrite(p, "mv_add", "mv_add_cs")
    \/ MoveAddAction(p)
    \/ AcquireWrite(p, "mv_save", "mv_save_cs")
    \/ MoveSaveRobot(p)
    \/ MoveRespond(p)

---------------------------------------------------------------------------
\* RobotHandler.PickupItem

ItemRequest(op, id, itemID) == [op |-> op, id |-> id, itemID |-> itemID]

StartPickup(p, id, itemID) == Admit(p, ItemRequest("Pickup", id, itemID), "pk_get")

PickupGetRobot(p) ==
    /\ pc[p] = "pk_get_cs"
    /\ mutex' = RUnlock(p)
    /\ LET robot == GetRobot(req[p].id) IN
         IF robot = Nil
         THEN Respond(p, 404, [error |-> "Robot not found"])
         ELSE /\ local' = [local EXCEPT ![p].robot = robot]
              /\ Goto(p, "pk_exists")
              /\ UNCHANGED resp
    /\ UNCHANGED <<robots, heap, items, req, pre, admitted>>

PickupItemExists(p) ==
    /\ pc[p] = "pk_exists_cs"
    /\ mutex' = RUnlock(p)
    /\ IF ~ItemExists(req[p].itemID)
       THEN Respond(p, 404, [error |-> "Item not found"])
       ELSE Goto(p, "pk_load") /\ UNCHANGED <<local, resp>>
    /\ UNCHANGED <<robots, heap, items, req, pre, admitted>>

\* the read of robot.Inventory in append(robot.Inventory, itemID)
PickupLoad(p) ==
    /\ pc[p] = "pk_load"
    /\ local' = [local EXCEPT ![p].inv = heap[local[p].robot].Inventory]
    /\ Goto(p, "pk_store")
    /\ UNCHANGED <<robots, heap, items, mutex, req, resp, pre, admitted>>

\* robot.Inventory = append(...)
PickupStore(p) ==
    /\ pc[p] = "pk_store"
    /\ heap' = [heap EXCEPT ![local[p].robot].Inventory = GoAppend(local[p].inv, req[p].itemID)]
    /\ Goto(p, "pk_remove")
    /\ UNCHANGED <<robots, items, mutex, req, local, resp, pre, admitted>>

PickupRemoveItem(p) ==
    /\ pc[p] = "pk_remove_cs"
    /\ items' = RemoveItem(req[p].itemID)
    /\ mutex' = Unlock(p)
    /\ Goto(p, "pk_save")
    /\ UNCHANGED <<robots, heap, req, local, resp, pre, admitted>>

PickupSaveRobot(p) == SaveStep(p, "pk_save_cs", local[p].robot, "pk_add")

PickupAddAction(p) ==
    AddActionStep(p, "pk_add_cs", req[p].id, "pickup",
                  "Picked up item " \o req[p].itemID, "pk_resp")

PickupRespond(p) ==
    /\ pc[p] = "pk_resp"
    /\ Respond(p, 200, [message |-> "Item picked up successfully",
                        inventory |-> heap[local[p].robot].Inventory])
    /\ UNCHANGED <<robots, heap, items, mutex, req, pre, admitted>>

PickupSteps(p) ==
    \/ AcquireRead(p, "pk_get", "pk_get_cs")
    \/ PickupGetRobot(p)
    \/ AcquireRead(p, "pk_exists", "pk_exists_cs")
    \/ PickupItemExists(p)
    \/ PickupLoad(p)
    \/ PickupStore(p)
    \/ AcquireWrite(p, "pk_remove", "pk_remove_cs")
    \/ PickupRemoveItem(p)
    \/ AcquireWrite(p, "pk_save", "pk_save_cs")
    \/ PickupSaveRobot(p)
    \/ AcquireWrite(p, "pk_add", "pk_add_cs")
    \/ PickupAddAction(p)
    \/ PickupRespond(p)

---------------------------------------------------------------------------
\* RobotHandler.PutdownItem

StartPutdown(p, id, itemID) == Admit(p, ItemRequest("Putdown", id, itemID), "pd_get")

PutdownGetRobot(p) ==
    /\ pc[p] = "pd_get_cs"
    /\ mutex' = RUnlock(p)
    /\ LET robot == GetRobot(req[p].id) IN
         IF robot = Nil
         THEN Respond(p, 404, [error |-> "Robot not found"])
         ELSE /\ local' = [local EXCEPT ![p].robot = robot]
              /\ Goto(p, "pd_scan")
              /\ UNCHANGED resp
    /\ UNCHANGED <<robots, heap, items, req, pre, admitted>>

\* hasItem as it would be if the loop set it for every element
HasItemAnything(inventory, itemID) == Len(inventory.elems) > 0

\* the loop over robot.Inventory: hasItem
HasItem(inventory, itemID) == \E i \in 1..Len(inventory.elems) : inventory.elems[i] = itemID

\* newInventory as it would be if the item were removed by moving the last element
\* into its place
NewInventorySwapRemove(inventory, itemID) ==
    LET elems == inventory.elems
        n == Len(elems)
        i == CHOOSE k \in 1..n : elems[k] = itemID /\ \A j \in 1..(k - 1) : elems[j] # itemID
        kept == IF ~\E k \in 1..n : elems[k] = itemID
                THEN elems
                ELSE [j \in 1..(n - 1) |-> IF j = i THEN elems[n] ELSE elems[j]]
    IN  [nil |-> kept = <<>>, elems |-> kept]

\* the loop over robot.Inventory: newInventory, a nil slice until something is appended
NewInventory(inventory, itemID) ==
    LET kept == SelectSeq(inventory.elems, LAMBDA x : x # itemID)
    IN  [nil |-> kept = <<>>, elems |-> kept]

\* PutdownScan as it would be if robot.Inventory = newInventory came before the
\* test of hasItem
PutdownScanStoresFirst(p) ==
    /\ pc[p] = "pd_scan"
    /\ LET inventory == heap[local[p].robot].Inventory IN
         IF ~HasItem(inventory, req[p].itemID)
         THEN /\ Respond(p, 400, [error |-> "Robot does not have this item"])
              /\ heap' = [heap EXCEPT ![local[p].robot].Inventory =
                              NewInventory(inventory, req[p].itemID)]
         ELSE /\ local' = [local EXCEPT ![p].inv = NewInventory(inventory, req[p].itemID)]
              /\ Goto(p, "pd_store")
              /\ UNCHANGED <<resp, heap>>
    /\ UNCHANGED <<robots, items, mutex, req, pre, admitted>>

PutdownScan(p) ==
    /\ pc[p] = "pd_scan"
    /\ LET inventory == heap[local[p].robot].Inventory IN
         IF ~HasItem(inventory, req[p].itemID)
         THEN Respond(p, 400, [error |-> "Robot does not have this item"])
         ELSE /\ local' = [local EXCEPT ![p].inv = NewInventory(inventory, req[p].itemID)]
              /\ Goto(p, "pd_store")
              /\ UNCHANGED resp
    /\ UNCHANGED <<robots, heap, items, mutex, req, pre, admitted>>

\* robot.Inventory = newInventory
PutdownStore(p) ==
    /\ pc[p] = "pd_store"
    /\ heap' = [heap EXCEPT ![local[p].robot].Inventory = local[p].inv]
    /\ Goto(p, "pd_additem")
    /\ UNCHANGED <<robots, items, mutex, req, local, resp, pre, admitted>>

PutdownAddItem(p) ==
    /\ pc[p] = "pd_additem_cs"
    /\ items' = AddItem(req[p].itemID)
    /\ mutex' = Unlock(p)
    /\ Goto(p, "pd_save")
    /\ UNCHANGED <<robots, heap, req, local, resp, pre, admitted>>

PutdownSaveRobot(p) == SaveStep(p, "pd_save_cs", local[p].robot, "pd_add")

PutdownAddAction(p) ==
    AddActionStep(p, "pd_add_cs", req[p].id, "putdown",
                  "Put down item " \o req[p].itemID, "pd_resp")

PutdownRespond(p) ==
    /\ pc[p] = "pd_resp"
    /\ Respond(p, 200, [message |-> "Item put down successfully",
                        inventory |-> heap[local[p].robot].Inventory])
    /\ UNCHANGED <<robots, heap, items, mutex, req, pre, admitted>>

PutdownSteps(p) ==
    \/ AcquireRead(p, "pd_get", "pd_get_cs")
    \/ PutdownGetRobot(p)
    \/ PutdownScan(p)
    \/ PutdownStore(p)
    \/ AcquireWrite(p, "pd_additem", "pd_additem_cs")
    \/ PutdownAddItem(p)
    \/ AcquireWrite(p, "pd_save", "pd_save_cs")
    \/ PutdownSaveRobot(p)
    \/ AcquireWrite(p, "pd_add", "pd_add_cs")
    \/ PutdownAddAction(p)
    \/ PutdownRespond(p)

---------------------------------------------------------------------------
\* RobotHandler.UpdateState

\* StateUpdateRequest: Energy and Position are pointers, nil when the field is omitted
StateUpdateRequest(id, hasEnergy, energy, hasPosition, position, malformed) ==
    [op |-> "UpdateState", id |-> id, hasEnergy |-> hasEnergy, energy |-> energy,
     hasPosition |-> hasPosition, position |-> position, malformed |-> malformed]

StartUpdate(p, id, hasEnergy, energy, hasPosition, position, malformed) ==
    Admit(p, StateUpdateRequest(id, hasEnergy, energy, hasPosition, position, malformed),
          "up_get")

\* The step after the energy as it would be if Position were not a pointer and
\* the decoded value were applied whether or not the field was sent
UpdateAfterEnergyAlwaysPosition(p) == "up_posx"

UpdateAfterEnergy(p) == IF req[p].hasPosition THEN "up_posx" ELSE "up_save"

UpdateGetRobot(p) ==
    /\ pc[p] = "up_get_cs"
    /\ mutex' = RUnlock(p)
    /\ LET robot == GetRobot(req[p].id) IN
         IF robot = Nil
         THEN Respond(p, 404, [error |-> "Robot not found"])
         ELSE IF req[p].malformed
         THEN Respond(p, 400, [error |-> "Invalid request format"])
         ELSE /\ local' = [local EXCEPT ![p].robot = robot]
              /\ Goto(p, IF req[p].hasEnergy THEN "up_energy" ELSE UpdateAfterEnergy(p))
              /\ UNCHANGED resp
    /\ UNCHANGED <<robots, heap, items, req, pre, admitted>>

\* robot.Energy = *stateReq.Energy
UpdateStoreEnergy(p) ==
    /\ pc[p] = "up_energy"
    /\ heap' = [heap EXCEPT ![local[p].robot].Energy = req[p].energy]
    /\ Goto(p, "up_eadd")
    /\ UNCHANGED <<robots, items, mutex, req, local, resp, pre, admitted>>

UpdateEnergyAddAction(p) ==
    AddActionStep(p, "up_eadd_cs", req[p].id, "update",
                  "Updated energy to " \o ToString(req[p].energy), UpdateAfterEnergy(p))

\* robot.Position = *stateReq.Position: the struct is copied word by word
UpdateStoreX(p) ==
    /\ pc[p] = "up_posx"
    /\ heap' = [heap EXCEPT ![local[p].robot].Position.X = req[p].position.X]
    /\ Goto(p, "up_posy")
    /\ UNCHANGED <<robots, items, mutex, req, local, resp, pre, admitted>>

UpdateStoreY(p) ==
    /\ pc[p] = "up_posy"
    /\ heap' = [heap EXCEPT ![local[p].robot].Position.Y = req[p].position.Y]
    /\ Goto(p, "up_padd")
    /\ UNCHANGED <<robots, items, mutex, req, local, resp, pre, admitted>>

\* UpdatePositionAddAction as it would be if a position update were logged as a move
UpdatePositionAddActionAsMove(p) ==
    AddActionStep(p, "up_padd_cs", req[p].id, "move",
                  "Updated position to (" \o ToString(req[p].position.X) \o ","
                      \o ToString(req[p].position.Y) \o ")",
                  "up_save")

UpdatePositionAddAction(p) ==
    AddActionStep(p, "up_padd_cs", req[p].id, "update",
                  "Updated position to (" \o ToString(req[p].position.X) \o ","
                      \o ToString(req[p].position.Y) \o ")",
                  "up_save")

UpdateSaveRobot(p) == SaveStep(p, "up_save_cs", local[p].robot, "up_resp")

UpdateRespond(p) ==
    /\ pc[p] = "up_resp"
    /\ Respond(p, 200, [message |-> "Robot state updated successfully",
                        robot |-> heap[local[p].robot]])
    /\ UNCHANGED <<robots, heap, items, mutex, req, pre, admitted>>

UpdateSteps(p) ==
    \/ AcquireRead(p, "up_get", "up_get_cs")
    \/ UpdateGetRobot(p)
    \/ UpdateStoreEnergy(p)
    \/ AcquireWrite(p, "up_eadd", "up_eadd_cs")
    \/ UpdateEnergyAddAction(p)
    \/ UpdateStoreX(p)
    \/ UpdateStoreY(p)
    \/ AcquireWrite(p, "up_padd", "up_padd_cs")
    \/ UpdatePositionAddAction(p)
    \/ AcquireWrite(p, "up_save", "up_save_cs")
    \/ UpdateSaveRobot(p)
    \/ UpdateRespond(p)

---------------------------------------------------------------------------
\* RobotHandler.AttackRobot

AttackCostPercent == 5
DamageFactor == 15

\* energyReduction as it would be if the cost were taken per thousand
EnergyReductionPerThousand(energy) == GoDiv(energy * AttackCostPercent, 1000)

\* energyReduction := attacker.Energy * 5 / 100
EnergyReduction(energy) == GoDiv(energy * AttackCostPercent, 100)

\* damage := target.Energy * damageFactor / 100
Damage(energy) == GoDiv(energy * DamageFactor, 100)

AttackRequest(id, targetID) == [op |-> "Attack", id |-> id, targetID |-> targetID]

StartAttack(p, id, targetID) == Admit(p, AttackRequest(id, targetID), "at_get")

AttackGetAttacker(p) ==
    /\ pc[p] = "at_get_cs"
    /\ mutex' = RUnlock(p)
    /\ LET attacker == GetRobot(req[p].id) IN
         IF attacker = Nil
         THEN Respond(p, 404, [error |-> "Attacker robot not found"])
         ELSE /\ local' = [local EXCEPT ![p].robot = attacker]
              /\ Goto(p, "at_tget")
              /\ UNCHANGED resp
    /\ UNCHANGED <<robots, heap, items, req, pre, admitted>>

\* AttackGetTarget as it would be if the attacker's cost were taken before the
\* target is looked up
AttackGetTargetAfterCost(p) ==
    /\ pc[p] = "at_tget_cs"
    /\ mutex' = RUnlock(p)
    /\ LET target == GetRobot(req[p].targetID) IN
         IF target = Nil
         THEN /\ Respond(p, 404, [error |-> "Target robot not found"])
              /\ heap' = [heap EXCEPT ![local[p].robot].Energy =
                              @ - EnergyReduction(@)]
         ELSE /\ local' = [local EXCEPT ![p].target = target]
              /\ Goto(p, "at_cost")
              /\ UNCHANGED <<resp, heap>>
    /\ UNCHANGED <<robots, items, req, pre, admitted>>

AttackGetTarget(p) ==
    /\ pc[p] = "at_tget_cs"
    /\ mutex' = RUnlock(p)
    /\ LET target == GetRobot(req[p].targetID) IN
         IF target = Nil
         THEN Respond(p, 404, [error |-> "Target robot not found"])
         ELSE /\ local' = [local EXCEPT ![p].target = target]
              /\ Goto(p, "at_cost")
              /\ UNCHANGED resp
    /\ UNCHANGED <<robots, heap, items, req, pre, admitted>>

\* the read of attacker.Energy in energyReduction := ...
AttackCost(p) ==
    /\ pc[p] = "at_cost"
    /\ local' = [local EXCEPT ![p].reduction = EnergyReduction(heap[local[p].robot].Energy)]
    /\ Goto(p, "at_load")
    /\ UNCHANGED <<robots, heap, items, mutex, req, resp, pre, admitted>>

\* attacker.Energy -= energyReduction: the read
AttackLoad(p) ==
    /\ pc[p] = "at_load"
    /\ local' = [local EXCEPT ![p].reg = heap[local[p].robot].Energy]
    /\ Goto(p, "at_store")
    /\ UNCHANGED <<robots, heap, items, mutex, req, resp, pre, admitted>>

\* attacker.Energy -= energyReduction: the write
AttackStore(p) ==
    /\ pc[p] = "at_store"
    /\ heap' = [heap EXCEPT ![local[p].robot].Energy = local[p].reg - local[p].reduction]
    /\ Goto(p, "at_damage")
    /\ UNCHANGED <<robots, items, mutex, req, local, resp, pre, admitted>>


\* AttackDamage as it would be if the damage were taken from the energy the
\* target had when the request arrived
AttackDamageFromEntryEnergy(p) ==
    /\ pc[p] = "at_damage"
    /\ local' = [local EXCEPT ![p].damage = Damage(pre[p].heap[local[p].target].Energy)]
    /\ Goto(p, "at_tload")
    /\ UNCHANGED <<robots, heap, items, mutex, req, resp, pre, admitted>>

\* the read of target.Energy in damage := ...
AttackDamage(p) ==
    /\ pc[p] = "at_damage"
    /\ local' = [local EXCEPT ![p].damage = Damage(heap[local[p].target].Energy)]
    /\ Goto(p, "at_tload")
    /\ UNCHANGED <<robots, heap, items, mutex, req, resp, pre, admitted>>

\* target.Energy -= damage: the read
AttackTargetLoad(p) ==
    /\ pc[p] = "at_tload"
    /\ local' = [local EXCEPT ![p].reg = heap[local[p].target].Energy]
    /\ Goto(p, "at_tstore")
    /\ UNCHANGED <<robots, heap, items, mutex, req, resp, pre, admitted>>

\* target.Energy -= damage: the write
AttackTargetStore(p) ==
    /\ pc[p] = "at_tstore"
    /\ heap' = [heap EXCEPT ![local[p].target].Energy = local[p].reg - local[p].damage]
    /\ Goto(p, "at_check")
    /\ UNCHANGED <<robots, items, mutex, req, local, resp, pre, admitted>>

\* AttackRobot as it would be without the test of target.Energy < 0
AttackCheckSkipped(p) ==
    /\ pc[p] = "at_check"
    /\ Goto(p, "at_add")
    /\ UNCHANGED <<robots, heap, items, mutex, req, local, resp, pre, admitted>>

\* if target.Energy < 0
AttackCheck(p) ==
    /\ pc[p] = "at_check"
    /\ Goto(p, IF heap[local[p].target].Energy < 0 THEN "at_clamp" ELSE "at_add")
    /\ UNCHANGED <<robots, heap, items, mutex, req, local, resp, pre, admitted>>

\* target.Energy = 0
AttackClamp(p) ==
    /\ pc[p] = "at_clamp"
    /\ heap' = [heap EXCEPT ![local[p].target].Energy = 0]
    /\ Goto(p, "at_add")
    /\ UNCHANGED <<robots, items, mutex, req, local, resp, pre, admitted>>

AttackAddAction(p) ==
    AddActionStep(p, "at_add_cs", req[p].id, "attack",
                  "Attacked robot " \o req[p].targetID, "at_tadd")

\* AttackTargetAddAction as it would be if the 'damaged' entry were logged under
\* the attacker's id
AttackTargetAddActionOnAttacker(p) ==
    AddActionStep(p, "at_tadd_cs", req[p].id, "damaged",
                  "Damaged by robot " \o req[p].id, "at_save")

AttackTargetAddAction(p) ==
    AddActionStep(p, "at_tadd_cs", req[p].targetID, "damaged",
                  "Damaged by robot " \o req[p].id, "at_save")

AttackSaveAttacker(p) == SaveStep(p, "at_save_cs", local[p].robot, "at_tsave")

AttackSaveTarget(p) == SaveStep(p, "at_tsave_cs", local[p].target, "at_resp")

\* the response reads attacker.Energy and target.Energy
AttackRespond(p) ==
    /\ pc[p] = "at_resp"
    /\ Respond(p, 200, [message |-> "Attack successful",
                        attacker_energy |-> heap[local[p].robot].Energy,
                        target_energy |-> heap[local[p].target].Energy,
                        damage_dealt |-> local[p].damage])
    /\ UNCHANGED <<robots, heap, items, mutex, req, pre, admitted>>

AttackSteps(p) ==
    \/ AcquireRead(p, "at_get", "at_get_cs")
    \/ AttackGetAttacker(p)
    \/ AcquireRead(p, "at_tget", "at_tget_cs")
    \/ AttackGetTarget(p)
    \/ AttackCost(p)
    \/ AttackLoad(p)
    \/ AttackStore(p)
    \/ AttackDamage(p)
    \/ AttackTargetLoad(p)
    \/ AttackTargetStore(p)
    \/ AttackCheck(p)
    \/ AttackClamp(p)
    \/ AcquireWrite(p, "at_add", "at_add_cs")
    \/ AttackAddAction(p)
    \/ AcquireWrite(p, "at_tadd", "at_tadd_cs")
    \/ AttackTargetAddAction(p)
    \/ AcquireWrite(p, "at_save", "at_save_cs")
    \/ AttackSaveAttacker(p)
    \/ AcquireWrite(p, "at_tsave", "at_tsave_cs")
    \/ AttackSaveTarget(p)
    \/ AttackRespond(p)

---------------------------------------------------------------------------
\* RobotHandler.GetStatus

\* c.Request.Host of the requests served, and the scheme of a server started
\* with router.Run (no TLS)
Host == "localhost:8080"
Scheme == "http"

Link(rel, href) == [Rel |-> rel, Href |-> href]

StatusRequest(id) == [op |-> "GetStatus", id |-> id]

StatusLinks(id) ==
    << Link("self", Scheme \o "://" \o Host \o "/robot/" \o id \o "/status"),
       Link("actions", Scheme \o "://" \o Host \o "/robot/" \o id
                          \o "/actions?page=1&size=5") >>

StatusGetRobot(p) ==
    /\ pc[p] = "st_get_cs"
    /\ mutex' = RUnlock(p)
    /\ LET robot == GetRobot(req[p].id) IN
         IF robot = Nil
         THEN Respond(p, 404, [error |-> "Robot not found"])
         ELSE /\ local' = [local EXCEPT ![p].robot = robot]
              /\ Goto(p, "st_posx")
              /\ UNCHANGED resp
    /\ UNCHANGED <<robots, heap, items, req, pre, admitted>>

\* the reads of robot.Position (two words), robot.Energy and robot.Inventory
\* for the response, none of them under the mutex
StatusReadX(p) ==
    /\ pc[p] = "st_posx"
    /\ local' = [local EXCEPT ![p].view.X = heap[local[p].robot].Position.X]
    /\ Goto(p, "st_posy")
    /\ UNCHANGED <<robots, heap, items, mutex, req, resp, pre, admitted>>

StatusReadY(p) ==
    /\ pc[p] = "st_posy"
    /\ local' = [local EXCEPT ![p].view.Y = heap[local[p].robot].Position.Y]
    /\ Goto(p, "st_energy")
    /\ UNCHANGED <<robots, heap, items, mutex, req, resp, pre, admitted>>

StatusReadEnergy(p) ==
    /\ pc[p] = "st_energy"
    /\ local' = [local EXCEPT ![p].view.Energy = heap[local[p].robot].Energy]
    /\ Goto(p, "st_inv")
    /\ UNCHANGED <<robots, heap, items, mutex, req, resp, pre, admitted>>

StatusReadInventory(p) ==
    /\ pc[p] = "st_inv"
    /\ local' = [local EXCEPT ![p].view.Inventory = heap[local[p].robot].Inventory]
    /\ Goto(p, "st_resp")
    /\ UNCHANGED <<robots, heap, items, mutex, req, resp, pre, admitted>>

StatusRespond(p) ==
    /\ pc[p] = "st_resp"
    /\ Respond(p, 200, [id |-> heap[local[p].robot].ID,
                        position |-> [X |-> local[p].view.X, Y |-> local[p].view.Y],
                        energy |-> local[p].view.Energy,
                        inventory |-> local[p].view.Inventory,
                        links |-> StatusLinks(req[p].id)])
    /\ UNCHANGED <<robots, heap, items, mutex, req, pre, admitted>>

StatusSteps(p) ==
    \/ AcquireRead(p, "st_get", "st_get_cs")
    \/ StatusGetRobot(p)
    \/ StatusReadX(p)
    \/ StatusReadY(p)
    \/ StatusReadEnergy(p)
    \/ StatusReadInventory(p)
    \/ StatusRespond(p)

---------------------------------------------------------------------------
\* RobotHandler.GetActions

\* A query parameter: absent, or present with a value, a sequence of characters.
NoQuery == [present |-> FALSE, value |-> <<>>]
Query(value) == [present |-> TRUE, value |-> value]

\* c.DefaultQuery
DefaultQuery(param, default) == IF param.present THEN param.value ELSE default

DefaultPage == <<"1">>
DefaultSize == <<"5">>

\* The page and the size used when the parameter does not parse or is below 1.
FallbackPage == 1
FallbackSize == 5

DigitChars == <<"0", "1", "2", "3", "4", "5", "6", "7", "8", "9">>

IsDigit(c) == \E d \in 1..10 : DigitChars[d] = c
DigitValue(c) == (CHOOSE d \in 1..10 : DigitChars[d] = c) - 1

RECURSIVE DigitsValue(_)
DigitsValue(s) ==
    IF s = <<>> THEN 0
    ELSE 10 * DigitsValue(SubSeq(s, 1, Len(s) - 1)) + DigitValue(s[Len(s)])

\* Atoi as it would be if the sign were skipped and the digits alone parsed
AtoiSignDropped(s) ==
    LET signed == s # <<>> /\ s[1] \in {"+", "-"}
        digits == IF signed THEN Tail(s) ELSE s
    IN  IF digits = <<>> \/ \E k \in 1..Len(digits) : ~IsDigit(digits[k])
        THEN [err |-> TRUE, value |-> 0]
        ELSE [err |-> FALSE, value |-> DigitsValue(digits)]

\* strconv.Atoi: an optional sign followed by at least one decimal digit and
\* nothing else; the value is 0 with an error otherwise
Atoi(s) ==
    LET signed == s # <<>> /\ s[1] \in {"+", "-"}
        digits == IF signed THEN Tail(s) ELSE s
    IN  IF digits = <<>> \/ \E k \in 1..Len(digits) : ~IsDigit(digits[k])
        THEN [err |-> TRUE, value |-> 0]
        ELSE [err |-> FALSE,
              value |-> IF signed /\ s[1] = "-" THEN 0 - DigitsValue(digits)
                        ELSE DigitsValue(digits)]

\* page, err := strconv.Atoi(pageStr); if err != nil || page < 1 { page = 1 }
AtLeastOne(s, fallback) ==
    LET parsed == Atoi(s)
    IN  IF parsed.err \/ parsed.value < 1 THEN fallback ELSE parsed.value

\* totalPages as it would be with the integer division totalElements / size
TotalPagesRoundedDown(totalElements, size) == totalElements \div size

\* int(math.Ceil(float64(totalElements) / float64(size))), size >= 1
TotalPages(totalElements, size) == (totalElements + size - 1) \div size

\* The page as it would be without the clamp to the last page
ClampPageNever(page, totalPages) == page

\* if page > totalPages && totalPages > 0 { page = totalPages }
ClampPage(page, totalPages) ==
    IF page > totalPages /\ totalPages > 0 THEN totalPages ELSE page


\* EndIndex as it would be if a page took one entry more than its size
EndIndexOneMore(startIndex, size, totalElements) ==
    IF startIndex + size + 1 > totalElements THEN totalElements ELSE startIndex + size + 1

\* endIndex := startIndex + size; if endIndex > totalElements { endIndex = totalElements }
EndIndex(startIndex, size, totalElements) ==
    IF startIndex + size > totalElements THEN totalElements ELSE startIndex + size

ActionsRequest(id, page, size) ==
    [op |-> "GetActions", id |-> id, page |-> page, size |-> size]

\* An ActionWithLinks: the action at 0-based index i with its self link
ActionWithLinks(action, id, i) ==
    [Type |-> action.Type, Details |-> action.Details,
     Links |-> << Link("self", "http://" \o Host \o "/robot/" \o id
                                  \o "/actions/" \o ToString(i + 1)) >>]

\* PageInfo as it would be if the last page still counted as having a next one
PageInfoNextOnLast(paging) ==
    [Number |-> paging.page, Size |-> paging.size,
     TotalElements |-> paging.totalElements, TotalPages |-> paging.totalPages,
     HasNext |-> paging.page <= paging.totalPages,
     HasPrevious |-> paging.page > 1]

PageInfo(paging) ==
    [Number |-> paging.page, Size |-> paging.size,
     TotalElements |-> paging.totalElements, TotalPages |-> paging.totalPages,
     HasNext |-> paging.page < paging.totalPages,
     HasPrevious |-> paging.page > 1]

\* The characters %d prints for a number that is not negative.
RECURSIVE FormatDigits(_)
FormatDigits(n) ==
    IF n < 10 THEN << DigitChars[n + 1] >>
    ELSE FormatDigits(n \div 10) \o << DigitChars[(n % 10) + 1] >>

\* fmt's %d of an int: the decimal digits, after a minus sign when negative
FormatInt(n) == IF n < 0 THEN <<"-">> \o FormatDigits(0 - n) ELSE FormatDigits(n)

\* fmt.Sprintf("/robot/%s/actions?page=%d&size=%d", id, page, size): the string
\* as its pieces in order, the fixed parts, the id and the characters of each %d
PageHref(id, page, size) ==
    <<"/robot/", id, "/actions?page=">> \o FormatInt(page) \o <<"&size=">> \o FormatInt(size)

\* The request a GET of a navigation link makes: the route /robot/:id/actions
\* binds the id, and the query's page and size are what follows "page=" up to
\* "&size=" and what follows "&size=".
FollowLink(href) ==
    LET amp == CHOOSE k \in 4..Len(href) : href[k] = "&size="
    IN  ActionsRequest(href[2], Query(SubSeq(href, 4, amp - 1)),
                       Query(SubSeq(href, amp + 1, Len(href))))


\* NavigationLinks as they would be if "next" skipped a page
NavigationLinksSkipping(id, paging) ==
    LET next == IF PageInfo(paging).HasNext
                THEN << Link("next", PageHref(id, paging.page + 2, paging.size)) >>
                ELSE <<>>
        previous == IF PageInfo(paging).HasPrevious
                    THEN << Link("previous", PageHref(id, paging.page - 1, paging.size)) >>
                    ELSE <<>>
    IN  [nil |-> next \o previous = <<>>, elems |-> next \o previous]

\* var links []Link, appended to when there is a next and when there is a
\* previous page
NavigationLinks(id, paging) ==
    LET next == IF PageInfo(paging).HasNext
                THEN << Link("next", PageHref(id, paging.page + 1, paging.size)) >>
                ELSE <<>>
        previous == IF PageInfo(paging).HasPrevious
                    THEN << Link("previous", PageHref(id, paging.page - 1, paging.size)) >>
                    ELSE <<>>
    IN  [nil |-> next \o previous = <<>>, elems |-> next \o previous]

ActionsGetRobot(p) ==
    /\ pc[p] = "ga_get_cs"
    /\ mutex' = RUnlock(p)
    /\ LET robot == GetRobot(req[p].id) IN
         IF robot = Nil
         THEN Respond(p, 404, [error |-> "Robot not found"])
         ELSE /\ local' = [local EXCEPT ![p].robot = robot]
              /\ Goto(p, "ga_len")
              /\ UNCHANGED resp
    /\ UNCHANGED <<robots, heap, items, req, pre, admitted>>

\* ActionsPaginate as it would be if pages were counted from 0
ActionsPaginateFromZero(p) ==
    /\ pc[p] = "ga_len"
    /\ LET page == AtLeastOne(DefaultQuery(req[p].page, DefaultPage), FallbackPage)
           size == AtLeastOne(DefaultQuery(req[p].size, DefaultSize), FallbackSize)
           totalElements == Len(heap[local[p].robot].Actions)
           totalPages == TotalPages(totalElements, size)
           clamped == ClampPage(page, totalPages)
           startIndex == clamped * size
       IN  local' = [local EXCEPT ![p].paging =
                        [page |-> clamped, size |-> size,
                         totalElements |-> totalElements, totalPages |-> totalPages,
                         endIndex |-> EndIndex(startIndex, size, totalElements),
                         i |-> startIndex],
                                  ![p].out = NilSlice]
    /\ Goto(p, "ga_loop")
    /\ UNCHANGED <<robots, heap, items, mutex, req, resp, pre, admitted>>

\* the parameters, len(robot.Actions) read without the mutex, and the indices
ActionsPaginate(p) ==
    /\ pc[p] = "ga_len"
    /\ LET page == AtLeastOne(DefaultQuery(req[p].page, DefaultPage), FallbackPage)
           size == AtLeastOne(DefaultQuery(req[p].size, DefaultSize), FallbackSize)
           totalElements == Len(heap[local[p].robot].Actions)
           totalPages == TotalPages(totalElements, size)
           clamped == ClampPage(page, totalPages)
           startIndex == (clamped - 1) * size
       IN  local' = [local EXCEPT ![p].paging =
                        [page |-> clamped, size |-> size,
                         totalElements |-> totalElements, totalPages |-> totalPages,
                         endIndex |-> EndIndex(startIndex, size, totalElements),
                         i |-> startIndex],
                                  ![p].out = NilSlice]
    /\ Goto(p, "ga_loop")
    /\ UNCHANGED <<robots, heap, items, mutex, req, resp, pre, admitted>>


\* ActionsLoop as it would be if each entry were put in front of the page
ActionsLoopNewestFirst(p) ==
    /\ pc[p] = "ga_loop"
    /\ local[p].paging.i < local[p].paging.endIndex
    /\ local' = [local EXCEPT
                    ![p].out = [nil |-> FALSE,
                                elems |-> << ActionWithLinks(
                                   heap[local[p].robot].Actions[local[p].paging.i + 1],
                                   req[p].id, local[p].paging.i) >> \o @.elems],
                    ![p].paging.i = @ + 1]
    /\ UNCHANGED <<robots, heap, items, mutex, pc, req, resp, pre, admitted>>

\* one turn of the loop: robot.Actions[i] read without the mutex and appended
ActionsLoop(p) ==
    /\ pc[p] = "ga_loop"
    /\ local[p].paging.i < local[p].paging.endIndex
    /\ local' = [local EXCEPT
                    ![p].out = GoAppend(@, ActionWithLinks(
                                   heap[local[p].robot].Actions[local[p].paging.i + 1],
                                   req[p].id, local[p].paging.i)),
                    ![p].paging.i = @ + 1]
    /\ UNCHANGED <<robots, heap, items, mutex, pc, req, resp, pre, admitted>>

ActionsLoopEnd(p) ==
    /\ pc[p] = "ga_loop"
    /\ ~(local[p].paging.i < local[p].paging.endIndex)
    /\ Goto(p, "ga_resp")
    /\ UNCHANGED <<robots, heap, items, mutex, req, local, resp, pre, admitted>>

\* ActionsRespond as it would be if reading the log were itself logged
ActionsRespondLogged(p) ==
    /\ pc[p] = "ga_resp"
    /\ Respond(p, 200, [page |-> PageInfo(local[p].paging),
                        actions |-> local[p].out,
                        links |-> NavigationLinks(req[p].id, local[p].paging)])
    /\ heap' = [heap EXCEPT ![local[p].robot].Actions =
                    Append(@, Action("read", "Listed actions"))]
    /\ UNCHANGED <<robots, items, mutex, req, pre, admitted>>

ActionsRespond(p) ==
    /\ pc[p] = "ga_resp"
    /\ Respond(p, 200, [page |-> PageInfo(local[p].paging),
                        actions |-> local[p].out,
                        links |-> NavigationLinks(req[p].id, local[p].paging)])
    /\ UNCHANGED <<robots, heap, items, mutex, req, pre, admitted>>

ActionsSteps(p) ==
    \/ AcquireRead(p, "ga_get", "ga_get_cs")
    \/ ActionsGetRobot(p)
    \/ ActionsPaginate(p)
    \/ ActionsLoop(p)
    \/ ActionsLoopEnd(p)
    \/ ActionsRespond(p)

---------------------------------------------------------------------------
\* Specifications

AnyRobotId == RobotIds \cup {UnknownRobot}
AnyDirection == Directions \cup {"north"}

AnyItem == SeedItems \cup {UnknownItem}

Busy(p) == pc[p] \notin {"idle", "done"}
AllIdle == \A p \in Procs : ~Busy(p)

\* The robots the request being served by p names.
Touches(p) ==
    IF ~Busy(p) THEN {}
    ELSE IF req[p].op = "Attack" THEN {req[p].id, req[p].targetID}
    ELSE {req[p].id}

\* No request in progress names the robot id.
Untouched(id) == \A q \in Procs : id \notin Touches(q)

\* Concurrent Move requests, any robot.
NextMove ==
    \E p \in Procs :
        \/ \E id \in AnyRobotId, d \in AnyDirection : StartMove(p, id, d, FALSE)
        \/ \E id \in AnyRobotId : StartMove(p, id, "up", TRUE)
        \/ MoveSteps(p)

SpecMove == Init /\ [][NextMove]_vars

\* Concurrent Move requests, no two of them in progress on the same robot.
NextMoveApart ==
    \E p \in Procs :
        \/ \E id \in AnyRobotId, d \in AnyDirection :
              Untouched(id) /\ StartMove(p, id, d, FALSE)
        \/ \E id \in AnyRobotId : Untouched(id) /\ StartMove(p, id, "up", TRUE)
        \/ MoveSteps(p)

SpecMoveApart == Init /\ [][NextMoveApart]_vars

\* Concurrent Pickup and Putdown requests.
NextItems ==
    \E p \in Procs :
        \/ \E id \in AnyRobotId, i \in AnyItem : StartPickup(p, id, i)
        \/ \E id \in AnyRobotId, i \in AnyItem : StartPutdown(p, id, i)
        \/ PickupSteps(p)
        \/ PutdownSteps(p)

SpecItems == Init /\ [][NextItems]_vars

EnergyInputs == {0, 40}
PositionInputs == {[X |-> 3, Y |-> 4]}

\* Concurrent Attack and UpdateState requests.
NextAttack ==
    \E p \in Procs :
        \/ \E id \in AnyRobotId, t \in AnyRobotId : StartAttack(p, id, t)
        \/ \E id \in AnyRobotId, he \in BOOLEAN, e \in EnergyInputs,
              hp \in BOOLEAN, pos \in PositionInputs :
              StartUpdate(p, id, he, e, hp, pos, FALSE)
        \/ \E id \in AnyRobotId :
              StartUpdate(p, id, FALSE, 0, FALSE, [X |-> 0, Y |-> 0], TRUE)
        \/ AttackSteps(p)
        \/ UpdateSteps(p)

SpecAttack == Init /\ [][NextAttack]_vars

\* Every operation, concurrently.
Step(p) ==
    \/ MoveSteps(p)
    \/ PickupSteps(p)
    \/ PutdownSteps(p)
    \/ UpdateSteps(p)
    \/ AttackSteps(p)

\* Two goroutines, each serving one request of any kind.
OneRobotId == {"robot1", UnknownRobot}
AttackPairs == (RobotIds \X RobotIds) \cup {<<"robot1", UnknownRobot>>, <<UnknownRobot, "robot1">>}

Next ==
    \E p \in Procs :
        \/ pc[p] = "idle" /\ \E id \in OneRobotId : StartMove(p, id, "up", FALSE)
        \/ pc[p] = "idle" /\ \E id \in OneRobotId : StartPickup(p, id, "item1")
        \/ pc[p] = "idle" /\ \E id \in OneRobotId : StartPutdown(p, id, "item1")
        \/ pc[p] = "idle" /\ \E id \in OneRobotId :
              StartUpdate(p, id, TRUE, -10, TRUE, [X |-> 3, Y |-> 4], FALSE)
        \/ pc[p] = "idle" /\ \E pair \in AttackPairs : StartAttack(p, pair[1], pair[2])
        \/ Step(p)

Spec == Init /\ [][Next]_vars

\* The Go scheduler runs every runnable goroutine, and a goroutine blocked on the
\* mutex is woken once the mutex is free.
FairSpec == Spec /\ \A p \in Procs : WF_vars(Step(p))

---------------------------------------------------------------------------
\* Specifications that serve one request at a time

\* The first step of the handler a request is routed to.
Entry(r) ==
    IF r.op = "Move" THEN "mv_get"
    ELSE IF r.op = "Pickup" THEN "pk_get"
    ELSE IF r.op = "Putdown" THEN "pd_get"
    ELSE IF r.op = "UpdateState" THEN "up_get"
    ELSE IF r.op = "Attack" THEN "at_get"
    ELSE IF r.op = "GetStatus" THEN "st_get"
    ELSE "ga_get"

\* A request is admitted when no other is in progress.
\* The store at the entry of a handler, together with the request served before
\* this one, its response and the store at its entry.
History(p) ==
    [heap |-> heap, items |-> items,
     lastReq |-> req[p], lastResp |-> resp[p],
     lastHeap |-> pre[p].heap, lastItems |-> pre[p].items]

AdmitAlone(r, limit) ==
    AllIdle /\ AdmitRecording("g1", r, Entry(r), limit, History("g1"))

\* Move requests, one at a time.
NextSeqMove ==
    \/ \E id \in AnyRobotId, d \in AnyDirection :
          AdmitAlone(MoveRequest(id, d, FALSE), MaxOps)
    \/ \E id \in AnyRobotId : AdmitAlone(MoveRequest(id, "up", TRUE), MaxOps)
    \/ MoveSteps("g1")

SpecSeqMove == Init /\ [][NextSeqMove]_vars

SeqItems == {"item1", "item2", "item3", UnknownItem}

\* Pickup and Putdown requests, one at a time.
NextSeqItems ==
    \/ \E id \in AnyRobotId, i \in SeqItems :
          AdmitAlone(ItemRequest("Pickup", id, i), MaxSeqOps)
    \/ \E id \in AnyRobotId, i \in SeqItems :
          AdmitAlone(ItemRequest("Putdown", id, i), MaxSeqOps)
    \/ PickupSteps("g1")
    \/ PutdownSteps("g1")

SpecSeqItems == Init /\ [][NextSeqItems]_vars

SeqEnergyInputs == {0, 6, 7, 19, 20, 100}

SeqPosition == [X |-> 3, Y |-> 4]

\* The bodies of the UpdateState requests served: energy alone, both fields (with
\* an energy below zero), position alone, neither field, and a body that does
\* not parse.
SeqUpdates(id) ==
    {StateUpdateRequest(id, TRUE, e, FALSE, SeqPosition, FALSE) : e \in SeqEnergyInputs}
    \cup {StateUpdateRequest(id, TRUE, -10, TRUE, SeqPosition, FALSE),
          StateUpdateRequest(id, FALSE, 0, TRUE, SeqPosition, FALSE),
          StateUpdateRequest(id, FALSE, 0, FALSE, SeqPosition, FALSE),
          StateUpdateRequest(id, FALSE, 0, FALSE, SeqPosition, TRUE)}

\* UpdateState and Attack requests, one at a time.
NextSeqEnergy ==
    \/ \E id \in AnyRobotId : \E r \in SeqUpdates(id) : AdmitAlone(r, MaxOps)
    \/ \E id \in AnyRobotId, t \in AnyRobotId : AdmitAlone(AttackRequest(id, t), MaxOps)
    \/ UpdateSteps("g1")
    \/ AttackSteps("g1")

SpecSeqEnergy == Init /\ [][NextSeqEnergy]_vars

\* The parameters of the GetActions requests served: absent, not a number,
\* below 1, and numbers up to far beyond the last page.
PageInputs ==
    {NoQuery, Query(<<>>), Query(<<"a">>), Query(<<"1", ".", "5">>), Query(<<"0">>),
     Query(<<"-", "1">>), Query(<<"1">>), Query(<<"+", "2">>), Query(<<"3">>),
     Query(<<"1", "0", "0", "0">>)}
SizeInputs ==
    {NoQuery, Query(<<"x">>), Query(<<"0">>), Query(<<"-", "2">>), Query(<<"1">>),
     Query(<<"2">>), Query(<<"3">>), Query(<<"5">>), Query(<<"1", "0">>)}

\* Every request kind, one request at a time, on robot1 or an unknown robot
\* (attacks between every pair).
SeqRequests ==
    {MoveRequest(id, d, FALSE) : id \in OneRobotId, d \in {"up", "north"}}
    \cup {MoveRequest(id, "up", TRUE) : id \in OneRobotId}
    \cup {ItemRequest(op, id, i) : op \in {"Pickup", "Putdown"}, id \in AnyRobotId,
                                   i \in {"item1", UnknownItem}}
    \cup {StateUpdateRequest(id, TRUE, -10, TRUE, SeqPosition, FALSE) : id \in OneRobotId}
    \cup {StateUpdateRequest(id, FALSE, 0, FALSE, SeqPosition, TRUE) : id \in OneRobotId}
    \cup {AttackRequest(pair[1], pair[2]) : pair \in AttackPairs}
    \cup {StatusRequest(id) : id \in OneRobotId}
    \cup {ActionsRequest(id, pg, Query(<<"5">>)) :
             id \in OneRobotId, pg \in {NoQuery, Query(<<"a">>), Query(<<"+", "2">>)}}

NextSeq ==
    \/ \E r \in SeqRequests : AdmitAlone(r, MaxOps)
    \/ MoveSteps("g1")
    \/ PickupSteps("g1")
    \/ PutdownSteps("g1")
    \/ UpdateSteps("g1")
    \/ AttackSteps("g1")
    \/ StatusSteps("g1")
    \/ ActionsSteps("g1")

SpecSeq == Init /\ [][NextSeq]_vars

\* The longest log GetActions is given.
MaxLogLen == 7

\* A log of n entries: the seeded entries of robot1, then moves.
PagingLog(n) ==
    [k \in 1..n |-> IF k <= Len(SeedActions("robot1"))
                    THEN SeedActions("robot1")[k]
                    ELSE Action("move", "Moved up")]

\* The store with a log of every length up to MaxLogLen for robot1.
InitPaging ==
    /\ robots = [id \in RobotIds |-> PtrOf(id)]
    /\ \E n \in 0..MaxLogLen :
         heap = [ptr \in {PtrOf(id) : id \in RobotIds} |->
                   IF ptr = PtrOf("robot1")
                   THEN [SeedRobot("robot1") EXCEPT !.Actions = PagingLog(n)]
                   ELSE SeedRobot(CHOOSE id \in RobotIds : PtrOf(id) = ptr)]
    /\ items = SeedItems
    /\ mutex = Unlocked
    /\ pc = [p \in Procs |-> "idle"]
    /\ req = [p \in Procs |-> NoReq]
    /\ local = [p \in Procs |-> NoLocal]
    /\ resp = [p \in Procs |-> NoResp]
    /\ pre = [p \in Procs |-> Snapshot]
    /\ admitted = 0

\* GetActions requests, one at a time, with every combination of parameters.
NextPaging ==
    \/ \E id \in AnyRobotId, pg \in PageInputs, sz \in SizeInputs :
          AllIdle /\ AdmitWithin("g1", ActionsRequest(id, pg, sz), "ga_get", MaxOps)
    \/ ActionsSteps("g1")

SpecPaging == InitPaging /\ [][NextPaging]_vars

\* A client paging through a log: it asks for any page, then follows the "next"
\* link of each answer for as long as there is one.  pre records the walk so
\* far: the number of answers followed, the page number of the first and of the
\* last of them, and the entries they returned, in order.
NoWalk == [pages |-> 0, first |-> 0, last |-> 0, entries |-> <<>>]

WalkStart ==
    \E id \in AnyRobotId, pg \in PageInputs, sz \in SizeInputs :
        /\ AllIdle
        /\ admitted = 0
        /\ AdmitRecording("g1", ActionsRequest(id, pg, sz), "ga_get", MaxLogLen + 1, NoWalk)

WalkFollow ==
    /\ pc["g1"] = "done"
    /\ resp["g1"].status = 200
    /\ \E k \in 1..Len(resp["g1"].body.links.elems) :
          /\ resp["g1"].body.links.elems[k].Rel = "next"
          /\ AdmitRecording("g1", FollowLink(resp["g1"].body.links.elems[k].Href),
              "ga_get", MaxLogLen + 1,
              [pages |-> pre["g1"].pages + 1,
               first |-> IF pre["g1"].pages = 0 THEN resp["g1"].body.page.Number
                         ELSE pre["g1"].first,
               last |-> resp["g1"].body.page.Number,
               entries |-> pre["g1"].entries \o
                   [a \in 1..Len(resp["g1"].body.actions.elems) |->
                       [Type |-> resp["g1"].body.actions.elems[a].Type,
                        Details |-> resp["g1"].body.actions.elems[a].Details]]])

NextWalk ==
    \/ WalkStart
    \/ WalkFollow
    \/ ActionsSteps("g1")

SpecWalk == InitPaging /\ [][NextWalk]_vars

---------------------------------------------------------------------------
\* Properties

Robot(id) == heap[robots[id]]
Log(id) == Robot(id).Actions
Held(id) == {Robot(id).Inventory.elems[k] : k \in 1..Len(Robot(id).Inventory.elems)}

IsPrefix(s, t) == Len(s) <= Len(t) /\ SubSeq(t, 1, Len(s)) = s

\* The entries appended to the log of id since the server started.
Appended(id) == SubSeq(Log(id), Len(SeedActions(id)) + 1, Len(Log(id)))

\* The unit vector a logged move stands for.
MoveVector(entry) ==
    IF entry.Type # "move" THEN [X |-> 0, Y |-> 0]
    ELSE IF entry.Details = "Moved up" THEN [X |-> 0, Y |-> 1]
    ELSE IF entry.Details = "Moved down" THEN [X |-> 0, Y |-> -1]
    ELSE IF entry.Details = "Moved left" THEN [X |-> -1, Y |-> 0]
    ELSE IF entry.Details = "Moved right" THEN [X |-> 1, Y |-> 0]
    ELSE [X |-> 0, Y |-> 0]

RECURSIVE ApplyMoves(_, _)
ApplyMoves(position, entries) ==
    IF entries = <<>> THEN position
    ELSE ApplyMoves([X |-> position.X + MoveVector(Head(entries)).X,
                     Y |-> position.Y + MoveVector(Head(entries)).Y],
                    Tail(entries))

\* The position of id after its logged moves, applied one after the other.
SerialPosition(id) == ApplyMoves(SeedRobot(id).Position, Appended(id))

\* C1: operations on the same robot are serialized, so no update is lost: once
\* every Move has finished, each robot stands where its logged moves, run one
\* after the other, put it (two concurrent Moves 'up' raise Y by exactly 2).
C1_SameRobotSerialized ==
    AllIdle => \A id \in RobotIds : Robot(id).Position = SerialPosition(id)

\* C2: in every reachable state, also in the middle of a Pickup or Putdown, no
\* item is both in the world-available set and in some robot's inventory.
C2_WorldAndInventoryDisjoint ==
    \A i \in items : \A id \in RobotIds : i \notin Held(id)

\* The places (robot, index) of the inventories that hold item i.
Holdings(i) ==
    {h \in RobotIds \X (1..Cardinality(SeedItems) + MaxOps) :
        /\ h[2] <= Len(Robot(h[1]).Inventory.elems)
        /\ Robot(h[1]).Inventory.elems[h[2]] = i}

\* C3: an item is held at most once: no item is in the inventories of two
\* robots, or twice in the inventory of one.
C3_HeldAtMostOnce ==
    \A i \in AnyItem : Cardinality(Holdings(i)) <= 1

\* C4: whenever no operation is in progress, every seeded item is in the
\* world-available set or in some robot's inventory.
C4_ItemsExhaustive ==
    AllIdle => \A i \in SeedItems : i \in items \/ \E id \in RobotIds : i \in Held(id)

\* C5: every robot's action log is append-only: in every step of every
\* execution the log before the step is a prefix of the log after it.
C5_LogAppendOnly ==
    [][\A id \in RobotIds :
          /\ id \in DOMAIN robots'
          /\ IsPrefix(Log(id), heap'[robots'[id]].Actions)]_vars

\* C5 witness: a handler is past its SaveRobot call while another request is in
\* progress, and the log of robot1 has grown by the entries of both.
C5_SavedAfterConcurrentAppends ==
    \E p \in Procs, q \in Procs :
        /\ p # q
        /\ pc[p] \in {"mv_resp", "up_resp", "at_resp"}
        /\ Busy(q)
        /\ Len(Log("robot1")) >= Len(SeedActions("robot1")) + 2

\* The steps of an Attack from its first read of an energy to its last write.
AttackWindow ==
    {"at_load", "at_store", "at_damage", "at_tload", "at_tstore", "at_check", "at_clamp"}

\* C6: an Attack has exclusive access to attacker and target: between its
\* reading the energies and its writing the reduced values no other operation
\* changes the energy of either robot.
C6_AttackExclusive ==
    [][\A p \in Procs :
          (pc[p] \in AttackWindow /\ pc'[p] = pc[p]) =>
              /\ heap'[local[p].robot].Energy = heap[local[p].robot].Energy
              /\ heap'[local[p].target].Energy = heap[local[p].target].Energy]_vars

\* C7: under fair scheduling every started operation runs to completion; no
\* operation waits forever for the store's mutex.
C7_EveryOperationCompletes ==
    \A p \in Procs : Busy(p) ~> (pc[p] = "done")

LockPoints ==
    {"at_get", "at_tget", "at_add", "at_tadd", "at_save", "at_tsave"}

\* C7 witness: robot1 attacks robot2 while robot2 attacks robot1; one Attack
\* holds the mutex and the other waits for it.
C7_OppositeAttacksContend ==
    \E p \in Procs, q \in Procs :
        /\ req[p] = AttackRequest("robot1", "robot2")
        /\ req[q] = AttackRequest("robot2", "robot1")
        /\ mutex.writer = p
        /\ pc[q] \in LockPoints

\* C8: concurrent Moves on different robots never corrupt a position: a robot no
\* Move is in progress on stands where its own moves, run one after the other,
\* put it.
C8_DifferentRobotsIndependent ==
    \A id \in RobotIds : Untouched(id) => Robot(id).Position = SerialPosition(id)

\* C8 witness: two Moves on different robots are in progress at once, both
\* having written their robot's position.
C8_TwoRobotsMovingAtOnce ==
    \E p \in Procs, q \in Procs :
        /\ pc[p] = "mv_resp"
        /\ pc[q] = "mv_add_cs"
        /\ req[p].id # req[q].id

\* The position a Move in the given direction leads to, as the claim states it.
Moved(before, direction) ==
    IF direction = "up" THEN [X |-> before.X, Y |-> before.Y + 1]
    ELSE IF direction = "down" THEN [X |-> before.X, Y |-> before.Y - 1]
    ELSE IF direction = "left" THEN [X |-> before.X - 1, Y |-> before.Y]
    ELSE [X |-> before.X + 1, Y |-> before.Y]

SuccessfulMove(p) ==
    /\ pc[p] = "done"
    /\ req[p].op = "Move"
    /\ resp[p].status = 200

\* C9: a Move of an existing robot in a direction of {up, down, left, right}
\* changes exactly one coordinate by exactly 1: up is Y+1, down is Y-1, left is
\* X-1, right is X+1.  Stated of the step that completes the Move, against the
\* position the robot had when the request was admitted.
C9_MoveByOne ==
    [][\A p \in Procs :
          (pc[p] = "mv_resp" /\ pc'[p] = "done") =>
              /\ req[p].direction \in {"up", "down", "left", "right"}
              /\ Robot(req[p].id)'.Position =
                    Moved(pre[p].heap[robots[req[p].id]].Position, req[p].direction)
              /\ resp'[p].body.position = Robot(req[p].id)'.Position]_vars

\* C9 witness: a Move 'left' of robot2 has completed after an earlier Move.
C9_MovedLeft ==
    \E p \in Procs :
        /\ SuccessfulMove(p)
        /\ req[p].id = "robot2"
        /\ req[p].direction = "left"
        /\ admitted = 2

\* A Move of an existing robot, well-formed, in a direction outside {up, down, left, right}.
InvalidMove(p) ==
    /\ Busy(p)
    /\ req[p].op = "Move"
    /\ req[p].id \in RobotIds
    /\ ~req[p].malformed
    /\ req[p].direction \notin {"up", "down", "left", "right"}

\* C10: a Move with a direction outside {up, down, left, right} fails with
\* InvalidArgument (400, "Invalid direction"): none of its steps changes a
\* position or appends a log entry.
C10_InvalidDirectionRejected ==
    [][\A p \in Procs :
          (InvalidMove(p) /\ pc'[p] # pc[p]) =>
              /\ heap' = heap
              /\ robots' = robots
              /\ items' = items
              /\ pc'[p] = "done" =>
                    resp'[p] = [status |-> 400, body |-> [error |-> "Invalid direction"]]
              /\ pc'[p] \in {"mv_get_cs", "done"}]_vars

\* C10 witness: a Move 'north' of robot1 has been answered while another request
\* is in progress.
C10_NorthRejected ==
    \E p \in Procs, q \in Procs :
        /\ pc[p] = "done"
        /\ req[p] = MoveRequest("robot1", "north", FALSE)
        /\ resp[p].status = 400
        /\ Busy(q)

---------------------------------------------------------------------------
\* Properties of one request served alone

\* The request served alone has been answered with the given status.
Answered(op, status) ==
    /\ pc["g1"] = "done"
    /\ req["g1"].op = op
    /\ resp["g1"].status = status

\* The robot the answered request names, when it was admitted and now.
Before == pre["g1"].heap[robots[req["g1"].id]]
After == heap[robots[req["g1"].id]]

\* Every robot but the one stored under id is as it was at admission.
OthersUnchanged(id) ==
    \A other \in RobotIds \ {id} : heap[robots[other]] = pre["g1"].heap[robots[other]]

\* The map of the store still holds the seeded pointers.
MapUnchanged == robots = [id \in RobotIds |-> PtrOf(id)]

\* C11: a successful Move appends exactly one 'move' entry carrying the literal
\* direction and changes nothing else: energy, inventory, compass direction, the
\* world-available set and every other robot are as before.
C11_MoveFrame ==
    Answered("Move", 200) =>
        /\ After.Actions = Append(Before.Actions,
                [Type |-> "move", Details |-> "Moved " \o req["g1"].direction])
        /\ After.Energy = Before.Energy
        /\ After.Inventory = Before.Inventory
        /\ After.Direction = Before.Direction
        /\ After.ID = Before.ID
        /\ items = pre["g1"].items
        /\ OthersUnchanged(req["g1"].id)
        /\ MapUnchanged

\* C11 witness: a second Move of robot2 has succeeded.
C11_MovedTwice ==
    /\ Answered("Move", 200)
    /\ req["g1"].id = "robot2"
    /\ Len(After.Actions) = Len(SeedActions("robot2")) + 2

\* The items of a slice.
Elems(inventory) == {inventory.elems[k] : k \in 1..Len(inventory.elems)}

\* The request names a robot of the store.
KnownRobot == req["g1"].id \in DOMAIN robots

\* Nothing of the store differs from what it was at admission.
StoreUnchanged ==
    /\ heap = pre["g1"].heap
    /\ items = pre["g1"].items
    /\ MapUnchanged

\* C12: a Pickup of an item that is not in the world-available set when the
\* request arrives (an unknown item, or one some robot holds) is answered
\* NotFound, with 'Item not found' when the robot exists, and changes nothing.
C12_PickupUnavailableNotFound ==
    (pc["g1"] = "done" /\ req["g1"].op = "Pickup"
        /\ req["g1"].itemID \notin pre["g1"].items) =>
        /\ resp["g1"].status = 404
        /\ KnownRobot => resp["g1"].body = [error |-> "Item not found"]
        /\ StoreUnchanged

\* C12 witness: robot2 asked for an item that robot1 holds and got NotFound.
C12_HeldItemRefused ==
    /\ Answered("Pickup", 404)
    /\ req["g1"].id = "robot2"
    /\ req["g1"].itemID \in Elems(heap[robots["robot1"]].Inventory)

\* C13: a successful Pickup appends the item at the end of the robot's
\* inventory, which grows by exactly 1, removes the item from the
\* world-available set and appends exactly one 'pickup' entry to the log.
C13_PickupEffect ==
    Answered("Pickup", 200) =>
        /\ After.Inventory.elems = Append(Before.Inventory.elems, req["g1"].itemID)
        /\ Len(After.Inventory.elems) = Len(Before.Inventory.elems) + 1
        /\ items = pre["g1"].items \ {req["g1"].itemID}
        /\ req["g1"].itemID \notin items
        /\ After.Actions = Append(Before.Actions,
                [Type |-> "pickup", Details |-> "Picked up item " \o req["g1"].itemID])

\* C13 witness: a robot that held one item has picked up a second one.
C13_SecondItemPickedUp ==
    /\ Answered("Pickup", 200)
    /\ Len(Before.Inventory.elems) = 1
    /\ Len(After.Inventory.elems) = 2

\* C14: a Putdown of an item the robot does not hold is answered with
\* 'Robot does not have this item' and the item is not added to the
\* world-available set; nothing of the store changes.
C14_PutdownNotHeldRejected ==
    (pc["g1"] = "done" /\ req["g1"].op = "Putdown" /\ KnownRobot
        /\ req["g1"].itemID \notin Elems(Before.Inventory)) =>
        /\ resp["g1"] = [status |-> 400, body |-> [error |-> "Robot does not have this item"]]
        /\ StoreUnchanged

\* C14 witness: robot1, holding an item, was refused the Putdown of an item that
\* robot2 holds, and that item is still not in the world-available set.
C14_OthersItemRefused ==
    /\ Answered("Putdown", 400)
    /\ req["g1"].id = "robot1"
    /\ Len(heap[robots["robot1"]].Inventory.elems) > 0
    /\ req["g1"].itemID \in Elems(heap[robots["robot2"]].Inventory)
    /\ req["g1"].itemID \notin items

\* C15: a successful Putdown removes the item from the robot's inventory, the
\* other items keeping their relative order, adds the item to the
\* world-available set and appends exactly one 'putdown' entry to the log.
C15_PutdownEffect ==
    Answered("Putdown", 200) =>
        /\ After.Inventory.elems =
              SelectSeq(Before.Inventory.elems, LAMBDA x : x # req["g1"].itemID)
        /\ req["g1"].itemID \notin Elems(After.Inventory)
        /\ items = pre["g1"].items \cup {req["g1"].itemID}
        /\ After.Actions = Append(Before.Actions,
                [Type |-> "putdown", Details |-> "Put down item " \o req["g1"].itemID])

\* C15 witness: a robot holding three items has put down the first of them.
C15_FirstOfThreePutDown ==
    /\ Answered("Putdown", 200)
    /\ Len(Before.Inventory.elems) = 3
    /\ Before.Inventory.elems[1] = req["g1"].itemID
    /\ Len(After.Inventory.elems) = 2

\* The answered request is a successful Putdown that directly follows the
\* successful Pickup of the same item by the same robot.
PutdownAfterPickup ==
    /\ Answered("Putdown", 200)
    /\ pre["g1"].lastReq = ItemRequest("Pickup", req["g1"].id, req["g1"].itemID)
    /\ pre["g1"].lastResp.status = 200

\* C16: a Pickup directly followed by the Putdown of the same item by the same
\* robot restores the robot's inventory and the world-available set to their
\* values before the Pickup and appends exactly 2 entries to the robot's log.
C16_PickupPutdownRoundTrip ==
    PutdownAfterPickup =>
        LET start == pre["g1"].lastHeap[robots[req["g1"].id]] IN
            /\ After.Inventory = start.Inventory
            /\ items = pre["g1"].lastItems
            /\ Len(After.Actions) = Len(start.Actions) + 2

\* The target of the answered Attack, when the request was admitted and now.
TargetBefore == pre["g1"].heap[robots[req["g1"].targetID]]
TargetAfter == heap[robots[req["g1"].targetID]]

\* The answered Attack names two different robots.
DistinctTarget == req["g1"].id # req["g1"].targetID

\* C17: in every reachable state, after any sequence of UpdateState and Attack
\* operations, every robot's energy is >= 0.
C17_EnergyNeverNegative ==
    \A id \in RobotIds : heap[robots[id]].Energy >= 0

\* C18: after every Attack the target's energy is >= 0 whatever it was before,
\* and a target that starts at energy 0 stays at exactly 0.
C18_AttackTargetNotNegative ==
    Answered("Attack", 200) =>
        /\ TargetAfter.Energy >= 0
        /\ TargetBefore.Energy = 0 => TargetAfter.Energy = 0

\* C18 witness: a robot at energy 0 has been attacked by the other robot.
C18_ZeroTargetAttacked ==
    /\ Answered("Attack", 200)
    /\ DistinctTarget
    /\ TargetBefore.Energy = 0
    /\ TargetAfter.Energy = 0

\* floor(x * percent / 100): \div rounds toward minus infinity
FloorPercent(x, percent) == (x * percent) \div 100

\* C19: for an Attack with attacker energy a and target energy t, both taken
\* before the Attack, the attacker's energy becomes a - floor(a*5/100), the
\* target's becomes max(0, t - floor(t*15/100)) and damage_dealt is
\* floor(t*15/100), for every integer a and t.
C19_AttackArithmetic ==
    (Answered("Attack", 200) /\ DistinctTarget) =>
        LET a == Before.Energy
            t == TargetBefore.Energy
            left == t - FloorPercent(t, 15)
        IN  /\ After.Energy = a - FloorPercent(a, 5)
            /\ TargetAfter.Energy = IF left < 0 THEN 0 ELSE left
            /\ resp["g1"].body.damage_dealt = FloorPercent(t, 15)

C21_AttackLogsTwoEntries ==
    Answered("Attack", 200) =>
        LET attack == [Type |-> "attack",
                       Details |-> "Attacked robot " \o req["g1"].targetID]
            damaged == [Type |-> "damaged",
                        Details |-> "Damaged by robot " \o req["g1"].id]
        IN  /\ DistinctTarget =>
                  /\ After.Actions = Append(Before.Actions, attack)
                  /\ TargetAfter.Actions = Append(TargetBefore.Actions, damaged)
            /\ ~DistinctTarget =>
                  After.Actions = Before.Actions \o <<attack, damaged>>
            /\ \A other \in RobotIds \ {req["g1"].id, req["g1"].targetID} :
                  heap[robots[other]].Actions = pre["g1"].heap[robots[other]].Actions

\* C21 witness: robot2 has attacked robot1 and each log is one entry longer.
C21_BothLogsGrew ==
    /\ Answered("Attack", 200)
    /\ req["g1"].id = "robot2"
    /\ req["g1"].targetID = "robot1"
    /\ Len(After.Actions) = Len(Before.Actions) + 1
    /\ Len(TargetAfter.Actions) = Len(TargetBefore.Actions) + 1

\* C22: an Attack whose attacker or target does not exist is answered NotFound,
\* the attacker being looked up first, and changes no robot's energy and no
\* log: the store is as it was.
C22_AttackUnknownNotFound ==
    (pc["g1"] = "done" /\ req["g1"].op = "Attack"
        /\ (req["g1"].id \notin RobotIds \/ req["g1"].targetID \notin RobotIds)) =>
        /\ resp["g1"].status = 404
        /\ resp["g1"].body =
              IF req["g1"].id \notin RobotIds
              THEN [error |-> "Attacker robot not found"]
              ELSE [error |-> "Target robot not found"]
        /\ StoreUnchanged

\* C22 witness: robot1 attacked a robot that does not exist and was refused.
C22_MissingTargetRefused ==
    /\ Answered("Attack", 404)
    /\ req["g1"].id = "robot1"
    /\ req["g1"].targetID = UnknownRobot
    /\ resp["g1"].body = [error |-> "Target robot not found"]

\* C23: UpdateState sets the energy to a present energy and the position to a
\* present position; an omitted field leaves that state untouched, the
\* inventory is never touched, and a request with neither field changes no
\* robot state.
C23_PartialUpdate ==
    Answered("UpdateState", 200) =>
        /\ After.Energy = IF req["g1"].hasEnergy THEN req["g1"].energy ELSE Before.Energy
        /\ After.Position =
              IF req["g1"].hasPosition THEN req["g1"].position ELSE Before.Position
        /\ After.Inventory = Before.Inventory
        /\ After.Direction = Before.Direction
        /\ After.ID = Before.ID
        /\ (~req["g1"].hasEnergy /\ ~req["g1"].hasPosition) => heap = pre["g1"].heap
        /\ OthersUnchanged(req["g1"].id)
        /\ items = pre["g1"].items
        /\ MapUnchanged

\* C23 witness: a position alone was sent to a robot whose energy had been set
\* to another value than the seeded one, and that energy is still there.
C23_PositionAloneKeepsEnergy ==
    /\ Answered("UpdateState", 200)
    /\ ~req["g1"].hasEnergy
    /\ req["g1"].hasPosition
    /\ Before.Energy # SeedRobot(req["g1"].id).Energy
    /\ After.Energy = Before.Energy
    /\ After.Position = req["g1"].position
    /\ Before.Position # req["g1"].position

\* The log entries of an UpdateState request.
EnergyEntry ==
    [Type |-> "update", Details |-> "Updated energy to " \o ToString(req["g1"].energy)]
PositionEntry ==
    [Type |-> "update",
     Details |-> "Updated position to (" \o ToString(req["g1"].position.X) \o ","
                    \o ToString(req["g1"].position.Y) \o ")"]

\* C24 as claimed: UpdateState appends one 'update' entry per field actually
\* changed (its value differs from the one before) and none otherwise, the
\* energy entry before the position entry.
C24_LogsPerChangedField ==
    Answered("UpdateState", 200) =>
        After.Actions =
            Before.Actions
            \o (IF req["g1"].hasEnergy /\ req["g1"].energy # Before.Energy
                THEN <<EnergyEntry>> ELSE <<>>)
            \o (IF req["g1"].hasPosition /\ req["g1"].position # Before.Position
                THEN <<PositionEntry>> ELSE <<>>)

\* C24 amended: UpdateState appends one 'update' entry per field present in the
\* request, whether or not its value differs from the one before, and none for
\* an omitted field, the energy entry before the position entry.
C24_LogsPerPresentField ==
    Answered("UpdateState", 200) =>
        After.Actions =
            Before.Actions
            \o (IF req["g1"].hasEnergy THEN <<EnergyEntry>> ELSE <<>>)
            \o (IF req["g1"].hasPosition THEN <<PositionEntry>> ELSE <<>>)

\* C24 witness: both fields were sent and the log is two entries longer.
C24_BothFieldsLogged ==
    /\ Answered("UpdateState", 200)
    /\ req["g1"].hasEnergy
    /\ req["g1"].hasPosition
    /\ Len(After.Actions) = Len(Before.Actions) + 2

\* C25: GetActions and GetStatus never change the store: after either, every
\* robot's position, energy, inventory and log and the world-available set are
\* as they were when the request arrived.
C25_QueriesReadOnly ==
    (pc["g1"] = "done" /\ req["g1"].op \in {"GetStatus", "GetActions"}) =>
        StoreUnchanged

\* C25 witness: the status of a robot was read right after an UpdateState had
\* set its energy.
C25_StatusReadAfterUpdate ==
    /\ Answered("GetStatus", 200)
    /\ resp["g1"].body.energy = -10
    /\ After.Energy = -10
    /\ pre["g1"].lastReq.op = "UpdateState"

\* C26: an operation answered with an error (unknown robot, item not available,
\* item not held, invalid direction, malformed body) has applied nothing: the
\* store is as it was when the request arrived.
C26_ErrorAppliesNothing ==
    (pc["g1"] = "done" /\ resp["g1"].status >= 400) => StoreUnchanged

\* C26 witness: robot1, holding item1, asked for item1 again and was refused.
C26_RefusedWhileHolding ==
    /\ Answered("Pickup", 404)
    /\ req["g1"].id = "robot1"
    /\ req["g1"].itemID = "item1"
    /\ After.Inventory.elems = <<"item1">>

\* C27: every operation called with an unknown robot id is answered NotFound,
\* whatever else is wrong with the request (a bad direction, a malformed body,
\* an unavailable item).
C27_UnknownRobotNotFound ==
    (pc["g1"] = "done" /\ req["g1"].id \notin RobotIds) =>
        /\ resp["g1"].status = 404
        /\ resp["g1"].body =
              IF req["g1"].op = "Attack"
              THEN [error |-> "Attacker robot not found"]
              ELSE [error |-> "Robot not found"]

\* C27 witness: a Move with a malformed body for an unknown robot was answered
\* NotFound.
C27_MalformedMoveOfUnknownRobot ==
    /\ Answered("Move", 404)
    /\ req["g1"].id = UnknownRobot
    /\ req["g1"].malformed

---------------------------------------------------------------------------
\* Properties of GetActions

\* The parameter values that are integers, with the integer each denotes; every
\* other value a request carries is not an integer.
IntegerValues ==
    (<<"0">> :> 0) @@ (<<"-", "1">> :> -1) @@ (<<"-", "2">> :> -2) @@ (<<"1">> :> 1)
    @@ (<<"2">> :> 2) @@ (<<"+", "2">> :> 2) @@ (<<"3">> :> 3) @@ (<<"5">> :> 5)
    @@ (<<"1", "0">> :> 10) @@ (<<"1", "0", "0", "0">> :> 1000)

\* The parameter is present and is not an integer, or is an integer below 1.
NotAnInteger(param) == param.present /\ param.value \notin DOMAIN IntegerValues
BelowOne(param) ==
    /\ param.present
    /\ param.value \in DOMAIN IntegerValues
    /\ IntegerValues[param.value] < 1

\* The integer a parameter asks for: its value when that is an integer of at
\* least 1, the given default when the parameter is absent or unusable.
Requested(param, default) ==
    IF ~param.present \/ NotAnInteger(param) \/ BelowOne(param)
    THEN default
    ELSE IntegerValues[param.value]

\* The log GetActions was asked about and what it answered.
PagedLog == heap[robots[req["g1"].id]].Actions
Page == resp["g1"].body.page
Returned == resp["g1"].body.actions.elems

Smaller(a, b) == IF a < b THEN a ELSE b

\* ceil(n / s) for n >= 0 and s >= 1: the least t with t * s >= n
CeilOf(n, s) == CHOOSE t \in 0..n : t * s >= n /\ \A u \in 0..(t - 1) : u * s < n

\* C28: a requested page that is below 1 or not an integer is treated as 1, a
\* requested size that is below 1 or not an integer is treated as 5, and the
\* response reports the values used.
C28_PaginationNormalized ==
    Answered("GetActions", 200) =>
        /\ (NotAnInteger(req["g1"].page) \/ BelowOne(req["g1"].page)) =>
              /\ Page.Number = 1
              /\ ~Page.HasPrevious
              /\ Len(Returned) = Smaller(Page.Size, Len(PagedLog))
              /\ Returned # <<>> => Returned[1].Details = PagedLog[1].Details
        /\ (NotAnInteger(req["g1"].size) \/ BelowOne(req["g1"].size)) => Page.Size = 5
        /\ Page.Size = Requested(req["g1"].size, 5)
        /\ Page.Size >= 1
        /\ Page.Number >= 1

\* C28 witness: a page that is not a number and a negative size were asked of a
\* log of 7 entries, and page 1 of size 5 was returned.
C28_UnusableParametersServed ==
    /\ Answered("GetActions", 200)
    /\ req["g1"].page = Query(<<"a">>)
    /\ req["g1"].size = Query(<<"-", "2">>)
    /\ Len(PagedLog) = 7
    /\ Page.Number = 1
    /\ Page.Size = 5
    /\ Len(Returned) = 5

\* C29: for a log of n >= 0 entries and a size s >= 1 the reported total page
\* count is ceil(n / s), which is 0 exactly when n = 0, and the reported total
\* element count is n.
C29_TotalPagesIsCeiling ==
    Answered("GetActions", 200) =>
        LET n == Len(PagedLog)
            size == Requested(req["g1"].size, 5)
        IN  /\ Page.TotalElements = n
            /\ Page.TotalPages = CeilOf(n, size)
            /\ Page.TotalPages * size >= n
            /\ Page.TotalPages > 0 => (Page.TotalPages - 1) * size < n
            /\ Page.TotalPages = 0 <=> n = 0

\* C29 witness: 7 entries in pages of 2 make 4 pages.
C29_SevenByTwo ==
    /\ Answered("GetActions", 200)
    /\ Page.TotalElements = 7
    /\ Page.Size = 2
    /\ Page.TotalPages = 4

\* C29 witness of the empty log: no entries make no pages.
C29_EmptyLogNoPages ==
    /\ Answered("GetActions", 200)
    /\ Page.TotalElements = 0
    /\ Page.TotalPages = 0

\* The response GetActions gives for the page of the given number, asked of the
\* log with the size of the request.
ResponseForPage(number) ==
    LET n == Len(PagedLog)
        size == Requested(req["g1"].size, 5)
        paging == [page |-> number, size |-> size, totalElements |-> n,
                   totalPages |-> CeilOf(n, size),
                   endIndex |-> Smaller(number * size, n), i |-> (number - 1) * size]
        first == (number - 1) * size + 1
        last == Smaller(number * size, n)
    IN  [page |-> PageInfo(paging),
         actions |-> [nil |-> last < first,
                      elems |-> [k \in 1..(last - first + 1) |->
                                   ActionWithLinks(PagedLog[first + k - 1], req["g1"].id,
                                                   first + k - 2)]],
         links |-> NavigationLinks(req["g1"].id, paging)]

\* C30: a requested page beyond the last one, when there are pages, is clamped
\* to the last page without an error: the response is the one for the last
\* page, which has no next page.
C30_PageClampedToLast ==
    (pc["g1"] = "done" /\ req["g1"].op = "GetActions" /\ KnownRobot
        /\ Len(PagedLog) > 0
        /\ Requested(req["g1"].page, 1) >
              CeilOf(Len(PagedLog), Requested(req["g1"].size, 5))) =>
        LET last == CeilOf(Len(PagedLog), Requested(req["g1"].size, 5))
        IN  /\ resp["g1"].status = 200
            /\ resp["g1"].body = ResponseForPage(last)
            /\ Page.Number = last
            /\ ~Page.HasNext
            /\ Page.HasPrevious <=> last > 1

\* C30 witness: page 1000 of the 3 seeded entries of robot2 with size 5 is the
\* single page, with neither a next nor a previous page.
C30_PageThousandOfThree ==
    /\ Answered("GetActions", 200)
    /\ req["g1"].id = "robot2"
    /\ req["g1"].page = Query(<<"1", "0", "0", "0">>)
    /\ Page.Size = 5
    /\ Page.Number = 1
    /\ Len(Returned) = 3
    /\ ~Page.HasNext
    /\ ~Page.HasPrevious

\* The page GetActions serves for the request: the requested one, or the last
\* one when the requested one is beyond it and there are pages.
EffectivePage ==
    LET last == CeilOf(Len(PagedLog), Requested(req["g1"].size, 5))
        asked == Requested(req["g1"].page, 1)
    IN  IF asked > last /\ last > 0 THEN last ELSE asked

\* The type and details of the entries returned, without their links.
ReturnedEntries == [k \in 1..Len(Returned) |->
                      [Type |-> Returned[k].Type, Details |-> Returned[k].Details]]

\* C31: for effective page p and size s over a log of n entries GetActions
\* returns exactly the entries at 0-based indices [(p-1)*s, min(p*s, n)), in
\* their order; of the 7 seeded entries of robot1 with size 5, page 1 is 5
\* entries of 2 pages and page 2 is the last 2.
C31_ReturnedSlice ==
    Answered("GetActions", 200) =>
        LET s == Requested(req["g1"].size, 5)
            n == Len(PagedLog)
            lo == (EffectivePage - 1) * s
            hi == Smaller(EffectivePage * s, n)
        IN  /\ Len(Returned) = (IF hi > lo THEN hi - lo ELSE 0)
            /\ \A k \in 1..Len(Returned) :
                  /\ ReturnedEntries[k] = PagedLog[lo + k]
                  /\ Returned[k].Links =
                        << [Rel |-> "self",
                            Href |-> "http://" \o Host \o "/robot/" \o req["g1"].id
                                        \o "/actions/" \o ToString(lo + k)] >>
            /\ (n = 7 /\ s = 5 /\ EffectivePage = 1) =>
                  Len(Returned) = 5 /\ Page.TotalPages = 2
            /\ (n = 7 /\ s = 5 /\ EffectivePage = 2) =>
                  ReturnedEntries = <<PagedLog[6], PagedLog[7]>>

\* C31 witness: page 2 of the 7 seeded entries of robot1 with size 5 is the
\* last two entries.
C31_SecondPageOfSeven ==
    /\ Answered("GetActions", 200)
    /\ req["g1"].id = "robot1"
    /\ PagedLog = SeedActions("robot1")
    /\ Page.Size = 5
    /\ Page.Number = 2
    /\ ReturnedEntries = <<SeedActions("robot1")[6], SeedActions("robot1")[7]>>

C33_HasNextHasPrevious ==
    Answered("GetActions", 200) =>
        /\ Page.Number = EffectivePage
        /\ Page.HasNext <=>
              EffectivePage < CeilOf(Len(PagedLog), Requested(req["g1"].size, 5))
        /\ Page.HasPrevious <=> EffectivePage > 1

\* C33 witness: page 2 of 7 entries with size 2 has a next and a previous page.
C33_MiddlePage ==
    /\ Answered("GetActions", 200)
    /\ Len(PagedLog) = 7
    /\ Page.Size = 2
    /\ Page.Number = 2
    /\ Page.HasNext
    /\ Page.HasPrevious

\* The hrefs of the navigation links of the answer with the given relation.
LinksOf(rel) ==
    LET links == resp["g1"].body.links.elems
    IN  [hrefs |-> { links[k].Href : k \in { j \in 1..Len(links) : links[j].Rel = rel } },
         count |-> Cardinality({ j \in 1..Len(links) : links[j].Rel = rel })]

\* A GET of the href asks for the given page of the same robot's log with the
\* given size.
Targets(href, page, size) ==
    /\ FollowLink(href).op = "GetActions"
    /\ FollowLink(href).id = req["g1"].id
    /\ FollowLink(href).page.present
    /\ Atoi(FollowLink(href).page.value) = [err |-> FALSE, value |-> page]
    /\ FollowLink(href).size.present
    /\ Atoi(FollowLink(href).size.value) = [err |-> FALSE, value |-> size]

\* C34: a GetActions answer has a "next" link exactly when hasNext is true, and
\* it targets page + 1 with the same size; it has a "previous" link exactly when
\* hasPrevious is true, and it targets page - 1 with the same size; the answer to
\* a followed "next" link is the page after the one it came from, as requested
\* (not clamped), and is not empty.
C34_NavigationLinks ==
    /\ Answered("GetActions", 200) =>
          /\ LinksOf("next").count = (IF Page.HasNext THEN 1 ELSE 0)
          /\ LinksOf("previous").count = (IF Page.HasPrevious THEN 1 ELSE 0)
          /\ Len(resp["g1"].body.links.elems)
                = LinksOf("next").count + LinksOf("previous").count
          /\ \A href \in LinksOf("next").hrefs : Targets(href, Page.Number + 1, Page.Size)
          /\ \A href \in LinksOf("previous").hrefs :
                Targets(href, Page.Number - 1, Page.Size)
    /\ (pc["g1"] = "done" /\ pre["g1"].pages > 0) =>
          /\ resp["g1"].status = 200
          /\ Page.Number = pre["g1"].last + 1
          /\ Page.Number <= Page.TotalPages
          /\ Returned # <<>>

\* C34 witness: the answer to the followed "next" link of page 2 of 7 entries
\* with size 2 is page 3, with a link to page 4 and a link to page 2.
C34_FollowedToMiddlePage ==
    /\ Answered("GetActions", 200)
    /\ pre["g1"].pages > 0
    /\ pre["g1"].last = 2
    /\ Len(PagedLog) = 7
    /\ Page.Size = 2
    /\ Page.Number = 3
    /\ LinksOf("next").count = 1
    /\ LinksOf("previous").count = 1

\* C39: for every non-empty log and every size of at least 1, the slices
\* returned for pages 1, 2, ..., totalPages, concatenated, are the full log,
\* each entry once and in order, and none of those pages is empty.
C39_PagesPartitionLog ==
    (/\ Answered("GetActions", 200)
     /\ Len(PagedLog) > 0
     /\ (IF pre["g1"].pages = 0 THEN Page.Number ELSE pre["g1"].first) = 1) =>
        /\ Page.Number = pre["g1"].pages + 1
        /\ Returned # <<>>
        /\ IsPrefix(pre["g1"].entries \o ReturnedEntries, PagedLog)
        /\ (Page.Number = CeilOf(Len(PagedLog), Requested(req["g1"].size, 5))) =>
              pre["g1"].entries \o ReturnedEntries = PagedLog
        /\ (Page.Number < CeilOf(Len(PagedLog), Requested(req["g1"].size, 5))) =>
              LinksOf("next").count = 1

\* C39 witness: the fourth and last page of a walk from page 1 through 7 entries
\* with size 2, the four pages together being the log.
C39_WalkedSevenByTwo ==
    /\ Answered("GetActions", 200)
    /\ Len(PagedLog) = 7
    /\ Page.Size = 2
    /\ pre["g1"].pages = 3
    /\ pre["g1"].first = 1
    /\ Page.Number = 4
    /\ Len(pre["g1"].entries) = 6
    /\ pre["g1"].entries \o ReturnedEntries = PagedLog

\* The types of the entries of the log of id, in order.
LogTypes(id) == [k \in 1..Len(Log(id)) |-> Log(id)[k].Type]

\* C35: before any request the store holds exactly robot1 at (0,0) with energy
\* 100, an empty inventory and the 7 entries create, move, pickup, putdown,
\* update, move, attack in that order, and robot2 at (10,10) with energy 100, an
\* empty inventory and the 3 entries create, move, damaged in that order, and at
\* least 3 items, every one of them available in the world.
C35_InitialState ==
    admitted = 0 =>
        /\ DOMAIN robots = {"robot1", "robot2"}
        /\ Robot("robot1").ID = "robot1"
        /\ Robot("robot1").Position = [X |-> 0, Y |-> 0]
        /\ Robot("robot1").Energy = 100
        /\ Robot("robot1").Inventory.elems = <<>>
        /\ LogTypes("robot1")
              = <<"create", "move", "pickup", "putdown", "update", "move", "attack">>
        /\ Robot("robot2").ID = "robot2"
        /\ Robot("robot2").Position = [X |-> 10, Y |-> 10]
        /\ Robot("robot2").Energy = 100
        /\ Robot("robot2").Inventory.elems = <<>>
        /\ LogTypes("robot2") = <<"create", "move", "damaged">>
        /\ Cardinality(items) >= 3
        /\ {"item1", "item2", "item3"} \subseteq items
        /\ \A id \in DOMAIN robots : Held(id) \cap items = {}

\* C35 witness: the store as constructed, no request admitted yet, with the 7
\* and the 3 seeded entries and the three items on the ground.
C35_FreshStore ==
    /\ admitted = 0
    /\ AllIdle
    /\ Len(Log("robot1")) = 7
    /\ Len(Log("robot2")) = 3
    /\ Cardinality(items) = 3

\* x * percent / 100 in Go's integer arithmetic, which rounds toward zero.
TruncPercent(x, percent) ==
    IF x >= 0 THEN (x * percent) \div 100 ELSE 0 - (((0 - x) * percent) \div 100)

\* C36: an Attack of a robot on itself is accepted; the robot first loses the
\* attacker's cost of 5 percent and then the target's damage of 15 percent of the
\* energy so reduced (an energy left below 0 becoming 0), and its log gains an
\* 'attack' and then a 'damaged' entry; nothing else changes.
C36_SelfAttack ==
    (pc["g1"] = "done" /\ req["g1"].op = "Attack"
        /\ req["g1"].id \in RobotIds /\ req["g1"].targetID = req["g1"].id) =>
        LET reduced == Before.Energy - TruncPercent(Before.Energy, 5)
            damage == TruncPercent(reduced, 15)
            left == reduced - damage
        IN  /\ resp["g1"].status = 200
            /\ After.Energy = (IF left < 0 THEN 0 ELSE left)
            /\ resp["g1"].body.damage_dealt = damage
            /\ resp["g1"].body.attacker_energy = After.Energy
            /\ resp["g1"].body.target_energy = After.Energy
            /\ After.Actions = Before.Actions \o
                  << [Type |-> "attack", Details |-> "Attacked robot " \o req["g1"].id],
                     [Type |-> "damaged", Details |-> "Damaged by robot " \o req["g1"].id] >>
            /\ After.Position = Before.Position
            /\ After.Inventory = Before.Inventory
            /\ OthersUnchanged(req["g1"].id)

\* C36 witness: robot1 at energy 100 has attacked itself: 95 after the cost, 14
\* of damage on the 95, 81 left.
C36_HundredToEightyOne ==
    /\ Answered("Attack", 200)
    /\ req["g1"].id = "robot1"
    /\ req["g1"].targetID = "robot1"
    /\ Before.Energy = 100
    /\ resp["g1"].body.damage_dealt = 14
    /\ After.Energy = 81

\* The position, energy and inventory of every robot object.
RobotFields ==
    [ptr \in DOMAIN heap |-> [Position |-> heap[ptr].Position,
                              Energy |-> heap[ptr].Energy,
                              Inventory |-> heap[ptr].Inventory]]

\* C37: every write to a robot's position, energy or inventory and every write
\* to the world-available set is a step of a goroutine that holds the store's
\* exclusive lock, so that no reader holding the read lock and no other writer
\* runs at the same time.
C37_WritesHoldTheLock ==
    [][(RobotFields' # RobotFields \/ items' # items) =>
          \E p \in Procs : pc'[p] # pc[p] /\ mutex.writer = p /\ mutex.readers = {}]_vars

\* The entries the request of goroutine p, once answered with success, has to
\* have appended to the log of robot id, in order.
EntriesOwed(p, id) ==
    LET r == req[p]
        own == r.op # "none" /\ r.id = id
    IN  IF pc[p] # "done" \/ resp[p].status # 200 THEN <<>>
        ELSE IF r.op = "Move" /\ own
             THEN << [Type |-> "move", Details |-> "Moved " \o r.direction] >>
        ELSE IF r.op = "Pickup" /\ own
             THEN << [Type |-> "pickup", Details |-> "Picked up item " \o r.itemID] >>
        ELSE IF r.op = "Putdown" /\ own
             THEN << [Type |-> "putdown", Details |-> "Put down item " \o r.itemID] >>
        ELSE IF r.op = "UpdateState" /\ own
             THEN (IF r.hasEnergy
                   THEN << [Type |-> "update",
                            Details |-> "Updated energy to " \o ToString(r.energy)] >>
                   ELSE <<>>)
                  \o (IF r.hasPosition
                      THEN << [Type |-> "update",
                               Details |-> "Updated position to ("
                                   \o ToString(r.position.X) \o ","
                                   \o ToString(r.position.Y) \o ")"] >>
                      ELSE <<>>)
        ELSE IF r.op = "Attack"
             THEN (IF own
                   THEN << [Type |-> "attack",
                            Details |-> "Attacked robot " \o r.targetID] >>
                   ELSE <<>>)
                  \o (IF r.targetID = id
                      THEN << [Type |-> "damaged",
                               Details |-> "Damaged by robot " \o r.id] >>
                      ELSE <<>>)
        ELSE <<>>

\* How often e occurs in the sequence s.
Occurrences(e, s) == Cardinality({k \in 1..Len(s) : s[k] = e})

\* C38: log appends are never lost: once the operations running concurrently
\* have all finished, the log of each robot has grown by exactly the entries the
\* successful operations append to it (1 per Move, Pickup and Putdown, 1 per
\* side of an Attack, 1 per field of an UpdateState), each as often as owed.
C38_NoAppendLost ==
    AllIdle =>
        \A id \in RobotIds :
            LET owed == EntriesOwed("g1", id) \o EntriesOwed("g2", id)
            IN  /\ IsPrefix(pre["g1"].heap[robots[id]].Actions, Log(id))
                /\ Len(Appended(id)) = Len(owed)
                /\ \A k \in 1..Len(owed) :
                      Occurrences(owed[k], Appended(id)) = Occurrences(owed[k], owed)

\* C38 witness: two successful requests on robot1 were both admitted before
\* either had appended, ran together and have finished, and the log of robot1 has
\* the entries of both.
C38_BothAppendsKept ==
    /\ \A p \in Procs :
          /\ pc[p] = "done"
          /\ resp[p].status = 200
          /\ req[p].id = "robot1"
          /\ Len(pre[p].heap[robots["robot1"]].Actions) = 7
    /\ Len(Log("robot1")) >= 9

====
